---- MODULE Spec2Model ----
(***************************************************************************)
(* SkillLens backend: the ATS scorer (atsScorer.js), the session store     *)
(* (sessionStore.js), the AI service client (aiService.js), the upload     *)
(* middleware (upload.js), the error handler (errorHandler.js) and the     *)
(* resume and chat routes (resume.js, chat.js).                            *)
(*                                                                         *)
(* Specifications:                                                         *)
(*   SpecATS      the pure functions of the ATS scorer applied to inputs   *)
(*                drawn from bounded sets;                                 *)
(*   SpecUpload   POST /resume/upload and the session store;               *)
(*   SpecAnalyze  POST /resume/analyze-text, GET /resume/ai-status and     *)
(*                aiService.extractSkills;                                 *)
(*   SpecChat     POST /chat/session, POST /chat/message,                  *)
(*                GET /chat/history and DELETE /chat/session;              *)
(*   SpecRoadmap  POST /chat/roadmap while sessions come and go;           *)
(*   SpecProfile  uploads and chat requests that name the same session;    *)
(*   SpecStore    the functions of the session store called directly;      *)
(*   SpecScore    scoreResume called repeatedly in one process;            *)
(*   SpecSummary  generateResumeSummary for names of any length;           *)
(*   SpecTurns    two concurrent messages on one chat session;             *)
(*   SpecTalk     messages to a stored session and to none;                *)
(*   SpecPlan     roadmap requests for a session with a history;           *)
(*   SpecApp      the views of the browser application (App.tsx,           *)
(*                Chatbot.tsx);                                            *)
(*   SpecErrors   errorHandler applied to errors of every name and message;*)
(*   SpecOutage   the routes that call the AI service while it fails, and  *)
(*                FairOutage, in which every pending call settles;         *)
(*   SpecStatus   the SystemStatus component and its health checks;        *)
(*   SpecResume   the resume analysis view of App (FileUpload.tsx);        *)
(*   SpecDelete   a chat session deleted while its messages are pending;   *)
(*   SpecConcurrent  concurrent uploads for one session.                   *)
(* Requests are suspended at their awaited AI-service calls and interleave *)
(* as the event loop allows.                                               *)
(***************************************************************************)
EXTENDS Integers, Sequences, FiniteSets, TLC

VARIABLES
    \* ---- SpecATS: one call of the scorer functions
    atsPc,          \* "start" | "scored" | "summarised"
    resumeText,     \* the resumeText argument (a JS value)
    analysis,       \* the analysis argument (a JS value)
    atsArg,         \* the ats argument handed to the two summary functions
    ats,            \* what scoreResume returned (or that it threw)
    summary,        \* what generateResumeSummary returned (or that it threw)
    improvements,   \* what summarizeImprovements returned (or that it threw)
    sectionLastIndex, \* the lastIndex of each expression of SECTION_REGEX
    scoredBefore,   \* history: per (text, analysis), what scoreResume returned
                    \* first and whether it was called with them again
    \* ---- the server
    chatSessions,   \* chat.js: const chatSessions = new Map()   id -> address
    heap,           \* the session objects chat.js holds by reference
    storeSessions,  \* sessionStore.js: const chatSessions = new Map()  id -> session
    inflight,       \* requests suspended at an awaited AI-service call
    lastResponse,   \* the response written last, with the request it answers
    everCreated,    \* history: the ids under which a session was ever stored
    \* ---- the browser application
    view,           \* App: const [view, setView] = useState('chat')
    currentRoadmap, \* App: const [roadmap, setRoadmap] = useState(null)
    chatbot,        \* the mounted Chatbot component: its state, whether its
                    \* create-session call is pending, the send-message requests
                    \* it awaits and the session ids its requests carried
    systemStatus,   \* the mounted SystemStatus component
    resumePage      \* App: the state of the resume analysis view

atsVars ==
    <<atsPc, resumeText, analysis, atsArg, ats, summary, improvements,
      sectionLastIndex, scoredBefore>>
serverVars == <<chatSessions, heap, storeSessions, inflight, lastResponse, everCreated>>
pageVars == <<systemStatus, resumePage>>
appVars == <<view, currentRoadmap, chatbot, pageVars>>
vars == <<atsVars, serverVars, appVars>>

(***************************************************************************)
(* Generic helpers                                                         *)
(***************************************************************************)
Min(a, b) == IF a < b THEN a ELSE b
Max(a, b) == IF a > b THEN a ELSE b

\* Math.round of the non-negative fraction n/d (d > 0): halves round up.
RoundDiv(n, d) == (2 * n + d) \div (2 * d)

RECURSIVE SumSeq(_)
SumSeq(s) == IF s = <<>> THEN 0 ELSE Head(s) + SumSeq(Tail(s))

\* Array.prototype.slice(0, n)
Slice(s, n) == SubSeq(s, 1, Min(n, Len(s)))

\* Array.prototype.join(sep) on an array of strings
RECURSIVE Join(_, _)
Join(s, sep) ==
    IF s = <<>> THEN ""
    ELSE IF Len(s) = 1 THEN s[1]
    ELSE s[1] \o sep \o Join(Tail(s), sep)

\* the elements of an array
Range(s) == {s[i] : i \in 1..Len(s)}

(***************************************************************************)
(* ATS scorer: texts                                                       *)
(*                                                                         *)
(* A resume text is a list of lines.  scoreResume looks at a text only     *)
(* through regular expressions and line lengths, none of which depends on  *)
(* the order of the lines, so a text is held as the number of lines of     *)
(* each kind.  Every kind is one literal line; LineAttr tabulates what the *)
(* scorer's expressions find in that literal.                              *)
(***************************************************************************)
SectionKeys ==
    <<"contact", "summary", "experience", "education", "skills", "projects",
      "certifications">>

HeadingKind(section) ==
    CASE section = "contact" -> "hContact"
      [] section = "summary" -> "hSummary"
      [] section = "experience" -> "hExperience"
      [] section = "education" -> "hEducation"
      [] section = "skills" -> "hSkills"
      [] section = "projects" -> "hProjects"
      [] section = "certifications" -> "hCertifications"

LineKinds ==
    {"hContact", "hSummary", "hExperience", "hEducation", "hSkills", "hProjects",
     "hCertifications", "bullet", "verb", "number", "email", "phone", "link",
     "filler", "long", "pitch"}

NoAttr ==
    [len |-> 0, sections |-> {}, bullets |-> 0, verbs |-> 0, numbers |-> 0,
     email |-> FALSE, phone |-> FALSE, link |-> FALSE]

\* What SECTION_REGEX, the bullet, action-verb, number, email, phone and link
\* expressions of scoreResume match in one line of each kind.
LineAttr(k) ==
    CASE k = "hContact" ->        \* "Contact"
            [NoAttr EXCEPT !.len = 7, !.sections = {"contact"}]
      [] k = "hSummary" ->        \* "Summary"
            [NoAttr EXCEPT !.len = 7, !.sections = {"summary"}]
      [] k = "hExperience" ->     \* "Experience"
            [NoAttr EXCEPT !.len = 10, !.sections = {"experience"}]
      [] k = "hEducation" ->      \* "Education"
            [NoAttr EXCEPT !.len = 9, !.sections = {"education"}]
      [] k = "hSkills" ->         \* "Skills"
            [NoAttr EXCEPT !.len = 6, !.sections = {"skills"}]
      [] k = "hProjects" ->       \* "Projects"
            [NoAttr EXCEPT !.len = 8, !.sections = {"projects"}]
      [] k = "hCertifications" -> \* "Certifications"
            [NoAttr EXCEPT !.len = 14, !.sections = {"certifications"}]
      [] k = "bullet" ->          \* "- Shipped the quarterly release"
            [NoAttr EXCEPT !.len = 31, !.bullets = 1]
      [] k = "verb" ->            \* "Led the platform team"
            [NoAttr EXCEPT !.len = 21, !.verbs = 1]
      [] k = "number" ->          \* "Grew revenue 40%"
            [NoAttr EXCEPT !.len = 16, !.numbers = 1]
      [] k = "email" ->           \* "jane@mail.io"
            [NoAttr EXCEPT !.len = 12, !.email = TRUE]
      [] k = "phone" ->           \* "555 123 4567"
            [NoAttr EXCEPT !.len = 12, !.numbers = 3, !.phone = TRUE]
      [] k = "link" ->            \* "https://jane.dev"
            [NoAttr EXCEPT !.len = 16, !.link = TRUE]
      [] k = "filler" ->          \* 80 characters of plain prose
            [NoAttr EXCEPT !.len = 80]
      [] k = "long" ->            \* 154 characters of plain prose
            [NoAttr EXCEPT !.len = 154]
      [] k = "pitch" ->
            \* "Led a team of 5 engineers to build and deploy a React dashboard,
            \*  reducing load time by 40%. Skilled in JavaScript, Python, AWS."
            [NoAttr EXCEPT !.len = 127, !.verbs = 1, !.numbers = 2]

LineKindSeq ==
    <<"hContact", "hSummary", "hExperience", "hEducation", "hSkills", "hProjects",
      "hCertifications", "bullet", "verb", "number", "email", "phone", "link",
      "filler", "long", "pitch">>

\* Sum over the lines of a text of a number found per line.
SumLines(lines, per) ==
    SumSeq([i \in 1..Len(LineKindSeq) |->
               lines[LineKindSeq[i]] * per[LineKindSeq[i]]])

CountLines(lines) == SumLines(lines, [k \in LineKinds |-> 1])

\* JS values that are not strings
Undefined == [kind |-> "undefined"]
Null == [kind |-> "null"]

StringOf(lines) == [kind |-> "string", lines |-> lines]
NoLines == [k \in LineKinds |-> 0]

\* !v for the text and object values used here: undefined, null and '' are falsy
Falsy(v) ==
    \/ v.kind \in {"undefined", "null"}
    \/ v.kind = "string" /\ CountLines(v.lines) = 0

\* A JS object with the given own properties (the parsed body of an AI-service
\* response, or the value scoreResume returns).
EmptyObject == [kind |-> "object", has |-> {}]

\* A parameter default (analysis = {}, ats = {}) replaces undefined only.
DefaultArg(v) == IF v.kind = "undefined" THEN EmptyObject ELSE v

\* Reading a property of undefined or null raises a TypeError.
ReadThrows(v) == v.kind \in {"undefined", "null"}

\* v.<field> is present (undefined otherwise; primitives have no such fields)
Has(v, field) == v.kind = "object" /\ field \in v.has

Returned(v) == [threw |-> FALSE, value |-> v]
Threw == [threw |-> TRUE, value |-> [kind |-> "TypeError"]]

(***************************************************************************)
(* ATS scorer: scoreResume                                                 *)
(***************************************************************************)
SectionCap == 35
KeywordCap == 30
FormattingCap == 20
SkillPointsCap == 18
ConfidencePointsCap == 6
CategoryPointsCap == 6
BulletTarget == 8
QuantCap == 5
SuggestionCap == 6
LongLineLen == 140

BreakdownKeys ==
    {"sections", "keywords", "formatting", "impact", "quantification", "contact"}

\* confidences[s] || 0, in hundredths
ConfidenceOf(a, s) ==
    IF Has(a, "confidence_scores") /\ s \in DOMAIN a.confidence_scores
    THEN a.confidence_scores[s] ELSE 0

\* impact points by the number of action-verb hits
ImpactPoints(actionVerbCount) ==
    IF actionVerbCount >= 10 THEN 10
    ELSE IF actionVerbCount >= 6 THEN 8
    ELSE IF actionVerbCount >= 3 THEN 6
    ELSE IF actionVerbCount >= 1 THEN 4
    ELSE 0

\* suggestions.slice(0, 6)
CapSuggestions(suggestions) == Slice(suggestions, SuggestionCap)

\* Math.max(0, Math.min(100, total))
ClampScore(total) == Max(0, Min(100, total))

ContactReminder == "Ensure email and phone number are present and easy to find."

\* SECTION_REGEX: seven expressions with the flag i alone, module-level objects
\* shared by all calls
SECTION_REGEX == [section \in Range(SectionKeys) |-> [global |-> FALSE]]

\* a test that would move lastIndex whatever the flags
RegExpTestGlobal(rx, lastIndex, matches) ==
    IF lastIndex < matches
    THEN [found |-> TRUE, lastIndex |-> lastIndex + 1]
    ELSE [found |-> FALSE, lastIndex |-> 0]

\* rx.test(text) on an expression whose lastIndex stands behind `lastIndex`
\* of the `matches` matches the text holds.  Without the flag g the search
\* starts at 0 and lastIndex is left alone; with it the search starts at
\* lastIndex, which moves behind the match found or back to 0.
RegExpTest(rx, lastIndex, matches) ==
    IF rx.global
    THEN IF lastIndex < matches
         THEN [found |-> TRUE, lastIndex |-> lastIndex + 1]
         ELSE [found |-> FALSE, lastIndex |-> 0]
    ELSE [found |-> matches > 0, lastIndex |-> lastIndex]

\* the matches of a section's expression in a text
SectionMatches(lines, section) ==
    LET hits == {k \in LineKinds : lines[k] > 0 /\ section \in LineAttr(k).sections}
    IN  IF hits = {} THEN 0
        ELSE SumLines(lines, [k \in LineKinds |-> IF k \in hits THEN 1 ELSE 0])

\* whether scoreResume returns before it reaches SECTION_REGEX
NotScored(resumeTextArg) == Falsy(resumeTextArg) \/ resumeTextArg.kind # "string"

\* SECTION_REGEX's lastIndex values after scoreResume(resumeTextArg, analysis)
SectionLastIndexAfter(resumeTextArg) ==
    IF NotScored(resumeTextArg) THEN sectionLastIndex
    ELSE [section \in Range(SectionKeys) |->
             RegExpTest(SECTION_REGEX[section], sectionLastIndex[section],
                        SectionMatches(resumeTextArg.lines, section)).lastIndex]

scoreResume(resumeTextArg, analysisArg) ==
    LET a == DefaultArg(analysisArg) IN
    IF NotScored(resumeTextArg)
    THEN Returned([kind |-> "object", has |-> {"score", "breakdown", "suggestions", "version"},
                   score |-> 0,
                   breakdown |-> [k \in {} |-> 0],
                   suggestions |-> <<"Resume text missing or invalid.">>,
                   version |-> "1.0"])
    ELSE IF ReadThrows(a) THEN Threw      \* analysis.skills on null
    ELSE
    LET lines == resumeTextArg.lines
        nLines == CountLines(lines)
        sectionPresence ==
            [section \in Range(SectionKeys) |->
                RegExpTest(SECTION_REGEX[section], sectionLastIndex[section],
                           SectionMatches(lines, section)).found]
        Present(section) == sectionPresence[section]
        \* 1) sections
        sectionRaw == SumSeq([i \in 1..Len(SectionKeys) |->
                                 IF Present(SectionKeys[i]) THEN 5 ELSE 0])
        sectionPoints == IF sectionRaw > SectionCap THEN SectionCap ELSE sectionRaw
        \* 2) keywords
        skills == IF Has(a, "skills") THEN a.skills ELSE <<>>
        categories == IF Has(a, "categories") THEN a.categories ELSE <<>>
        confSum == SumSeq([i \in 1..Len(skills) |-> ConfidenceOf(a, skills[i])])
        confPoints == IF Len(skills) > 0
                      THEN RoundDiv(6 * confSum, 100 * Len(skills)) ELSE 0
        catCount == Len(categories)
        keywordRaw == Min(Len(skills), SkillPointsCap)
                      + Min(confPoints, ConfidencePointsCap)
                      + Min(catCount, CategoryPointsCap)
        keywordPoints == IF keywordRaw > KeywordCap THEN KeywordCap ELSE keywordRaw
        \* 3) formatting
        bulletCount == SumLines(lines, [k \in LineKinds |-> LineAttr(k).bullets])
        longLines ==
            SumLines(lines, [k \in LineKinds |->
                                IF LineAttr(k).len > LongLineLen THEN 1 ELSE 0])
        lengthSum == SumLines(lines, [k \in LineKinds |-> LineAttr(k).len])
        avgLineLen == IF nLines > 0 THEN RoundDiv(lengthSum, nLines) ELSE 0
        formattingRaw ==
            (IF bulletCount >= BulletTarget THEN BulletTarget ELSE Max(0, bulletCount))
            + (IF avgLineLen > 50 /\ avgLineLen < 120 THEN 6 ELSE 3)
            + (IF longLines <= Max(3, RoundDiv(nLines, 20)) THEN 6 ELSE 2)
        formattingPoints ==
            IF formattingRaw > FormattingCap THEN FormattingCap ELSE formattingRaw
        \* 4) impact
        actionVerbCount == SumLines(lines, [k \in LineKinds |-> LineAttr(k).verbs])
        impactPoints == ImpactPoints(actionVerbCount)
        \* 5) quantification
        numbers == SumLines(lines, [k \in LineKinds |-> LineAttr(k).numbers])
        quantPoints == Min(QuantCap, RoundDiv(numbers, 4))
        \* 6) contact
        hasEmail == \E k \in LineKinds : lines[k] > 0 /\ LineAttr(k).email
        hasPhone == \E k \in LineKinds : lines[k] > 0 /\ LineAttr(k).phone
        hasLink == \E k \in LineKinds : lines[k] > 0 /\ LineAttr(k).link
        contactPoints == (IF hasEmail THEN 2 ELSE 0) + (IF hasPhone THEN 2 ELSE 0)
                         + (IF hasLink THEN 1 ELSE 0)
        total == sectionPoints + keywordPoints + formattingPoints + impactPoints
                 + quantPoints + contactPoints
        \* suggestions, in the order the code pushes them
        Missing(section) == ~Present(section)
        sectionHints ==
            [i \in 1..Len(SelectSeq(SectionKeys, Missing)) |->
                "Add a clear '" \o SelectSeq(SectionKeys, Missing)[i]
                    \o "' section with a concise heading."]
        suggestions ==
            sectionHints
            \o (IF Len(skills) < 10
                THEN <<"Include more role-relevant keywords in the Skills section.">>
                ELSE <<>>)
            \o (IF avgLineLen >= 120
                THEN <<"Break long paragraphs into concise bullet points.">> ELSE <<>>)
            \o (IF bulletCount < 8
                THEN <<"Use more bullet points to highlight achievements.">> ELSE <<>>)
            \o (IF actionVerbCount < 5
                THEN <<"Start bullets with strong action verbs (e.g., Led, Built, Optimized).">>
                ELSE <<>>)
            \o (IF numbers < 5
                THEN <<"Quantify impact with numbers (%, $, time saved, scale).">>
                ELSE <<>>)
            \o (IF ~hasEmail \/ ~hasPhone THEN <<ContactReminder>> ELSE <<>>)
    IN  Returned([kind |-> "object",
                  has |-> {"score", "breakdown", "meta", "suggestions", "version"},
                  score |-> ClampScore(total),
                  breakdown |-> [k \in BreakdownKeys |->
                      CASE k = "sections" -> sectionPoints
                        [] k = "keywords" -> keywordPoints
                        [] k = "formatting" -> formattingPoints
                        [] k = "impact" -> impactPoints
                        [] k = "quantification" -> quantPoints
                        [] k = "contact" -> contactPoints],
                  meta |-> [skillsCount |-> Len(skills), categories |-> categories,
                            confidenceSum |-> confSum],
                  suggestions |-> CapSuggestions(suggestions),
                  version |-> "1.0"])

(***************************************************************************)
(* ATS scorer: generateResumeSummary, summarizeImprovements                *)
(***************************************************************************)
SummaryMax == 320
SummaryKeep == 317

\* a cut that would keep 320 characters before the dots
TruncateLate(text) ==
    IF Len(text) > SummaryMax THEN SubSeq(text, 1, SummaryMax) \o "..." ELSE text

\* summary.length > 320 ? summary.slice(0, 317) + '...' : summary
Truncate(text) ==
    IF Len(text) > SummaryMax THEN SubSeq(text, 1, SummaryKeep) \o "..." ELSE text

\* const summary = [line1, line2, line3].filter(Boolean).join(' '), for
\* arguments whose properties can be read
AssembledSummary(a, t) ==
    LET skills == IF Has(a, "skills") THEN a.skills ELSE <<>>
        topSkills == Slice(skills, 6)
        categories == IF Has(a, "categories") THEN a.categories ELSE <<>>
        catSnippet == Join(Slice(categories, 3), ", ")
        impactHint ==
            IF Has(t, "breakdown") /\ "impact" \in DOMAIN t.breakdown
               /\ t.breakdown["impact"] >= 6
            THEN "proven impact" ELSE "impact"
        parts ==
            (IF Len(topSkills) > 0
             THEN <<"Hands-on with " \o Join(Slice(topSkills, 3), ", ")
                     \o (IF Len(topSkills) > 3 THEN ", and " \o topSkills[4] ELSE "")>>
             ELSE <<>>)
            \o (IF catSnippet # "" THEN <<"spanning " \o catSnippet>> ELSE <<>>)
        line1 == IF Len(parts) > 0 THEN Join(parts, " ") \o "."
                 ELSE "Results-driven professional with a strong technical foundation."
        line2 == "Focus on delivering " \o impactHint
                 \o " through clean execution, measurable results, and continuous improvement."
        line3 == IF Len(topSkills) > 0
                 THEN <<"Seeking roles where " \o topSkills[1]
                         \o " and adjacent skills create outsized value.">>
                 ELSE <<>>
    IN  Join(<<line1, line2>> \o line3, " ")

generateResumeSummary(analysisArg, atsValue) ==
    LET a == DefaultArg(analysisArg)
        t == DefaultArg(atsValue)
    IN
    IF ReadThrows(a) THEN Threw           \* analysis.skills on null
    ELSE IF ReadThrows(t) THEN Threw      \* ats.breakdown on null
    ELSE Returned(Truncate(AssembledSummary(a, t)))

GoodShape == "Resume is in good shape. Consider minor refinements for clarity and impact."

\* the separator literal of top.join(...), a bullet between two spaces
BulletJoin == " * "

summarizeImprovements(atsValue) ==
    LET t == DefaultArg(atsValue) IN
    IF ReadThrows(t) THEN Threw           \* ats.suggestions on null
    ELSE
    LET list == IF Has(t, "suggestions") THEN t.suggestions ELSE <<>>
        top == Slice(list, 3)
    IN  IF Len(top) = 0 THEN Returned(GoodShape) ELSE Returned(Join(top, BulletJoin))

(***************************************************************************)
(* SpecATS: inputs                                                         *)
(***************************************************************************)
SkillNames ==
    <<"JavaScript", "Python", "AWS", "React", "Node.js", "TypeScript", "Docker",
      "Kubernetes", "PostgreSQL", "MongoDB", "GraphQL", "Redis", "Terraform", "Go",
      "Java", "Git", "Linux", "Kafka", "Rust", "Swift">>

CategoryNames ==
    <<"Languages", "Cloud", "Frontend", "Backend", "Databases", "DevOps", "Tools">>

\* A well-formed AnalysisResult: n skills in c categories, every skill with the
\* same confidence (in hundredths).
AnalysisOf(n, c, conf) ==
    [kind |-> "object", has |-> {"skills", "categories", "confidence_scores"},
     skills |-> SubSeq(SkillNames, 1, n),
     categories |-> SubSeq(CategoryNames, 1, c),
     confidence_scores |-> [s \in {SkillNames[i] : i \in 1..n} |-> conf]]

\* The body of an AI-service answer that carries skills and nothing else.
SkillsOnly ==
    [kind |-> "object", has |-> {"skills"}, skills |-> SubSeq(SkillNames, 1, 3)]

\* The empty response body: the string ''.
EmptyBody == StringOf(NoLines)

Analyses ==
    {Undefined, Null, EmptyBody, EmptyObject, SkillsOnly,
     AnalysisOf(3, 2, 90), AnalysisOf(10, 3, 90), AnalysisOf(18, 6, 100),
     AnalysisOf(20, 7, 100)}

\* The text with headings for the first nSections sections and the given
\* numbers of lines of the other kinds.
TextOf(nSections, nBullets, nVerbs, nNumbers, email, phone, link, nFiller, nLong) ==
    StringOf([k \in LineKinds |->
        CASE k = "bullet" -> nBullets
          [] k = "verb" -> nVerbs
          [] k = "number" -> nNumbers
          [] k = "email" -> IF email THEN 1 ELSE 0
          [] k = "phone" -> IF phone THEN 1 ELSE 0
          [] k = "link" -> IF link THEN 1 ELSE 0
          [] k = "filler" -> nFiller
          [] k = "long" -> nLong
          [] k = "pitch" -> 0
          [] OTHER ->
              IF \E i \in 1..nSections : HeadingKind(SectionKeys[i]) = k
              THEN 1 ELSE 0])

\* The text of the analyze-text scenario: one line, no heading, no contact data.
PitchText == StringOf([NoLines EXCEPT !["pitch"] = 1])

Texts ==
    {TextOf(s, b, v, n, e, p, l, f, g) :
        s \in 0..Len(SectionKeys), b \in {0, 8}, v \in {0, 6, 10}, n \in {0, 18},
        e \in BOOLEAN, p \in BOOLEAN, l \in BOOLEAN, f \in {0, 10}, g \in {0, 5}}
    \cup {PitchText}

\* Arguments that are no usable text: absent, null, a number, the empty string.
BadTexts == {Undefined, Null, [kind |-> "number"], StringOf(NoLines)}

(***************************************************************************)
(* Strings                                                                 *)
(***************************************************************************)
\* String.prototype.includes
Includes(s, sub) ==
    \E i \in 1..(Len(s) - Len(sub) + 1) : SubSeq(s, i, i + Len(sub) - 1) = sub

\* String.prototype.toLowerCase on the skill names the AI service returns here
ToLowerCase(s) ==
    CASE s = "Python" -> "python"
      [] s = "PYTHON" -> "python"
      [] s = "React" -> "react"
      [] OTHER -> s

(***************************************************************************)
(* errorHandler.js                                                         *)
(***************************************************************************)
Reply(status, message) == [status |-> status, success |-> FALSE, message |-> message]

\* the status chosen from the message, for an error of no special name
StatusOfMessage(message) ==
    IF Includes(message, "not found") \/ Includes(message, "does not exist") THEN 404
    ELSE IF Includes(message, "unauthorized") \/ Includes(message, "not authorized")
    THEN 401
    ELSE IF Includes(message, "forbidden") \/ Includes(message, "access denied") THEN 403
    ELSE IF Includes(message, "validation") \/ Includes(message, "invalid") THEN 400
    ELSE IF Includes(message, "timeout") \/ Includes(message, "timed out") THEN 504
    ELSE 500

\* errorHandler with the key words of the message looked at before the name
errorHandlerByMessageFirst(err) ==
    IF err.message # "" /\ Includes(err.message, "Unexpected end of form")
    THEN Reply(400, "Upload interrupted or incomplete. Please try uploading again.")
    ELSE IF err.message # "" /\ Includes(err.message, "Missing boundary")
    THEN Reply(400, "Invalid form data. Please ensure you are uploading a file correctly.")
    ELSE IF err.message # "" /\ StatusOfMessage(err.message) # 500
    THEN Reply(StatusOfMessage(err.message), err.message)
    ELSE IF err.name = "ValidationError" THEN Reply(400, err.message)
    ELSE IF err.name = "CastError" THEN Reply(400, "Invalid data format")
    ELSE IF err.name = "MulterError"
    THEN Reply(400, IF err.message # "" THEN err.message ELSE "File upload error")
    ELSE IF err.message # "" THEN Reply(500, err.message)
    ELSE Reply(500, "Internal server error")

errorHandler(err) ==
    IF err.message # "" /\ Includes(err.message, "Unexpected end of form")
    THEN Reply(400, "Upload interrupted or incomplete. Please try uploading again.")
    ELSE IF err.message # "" /\ Includes(err.message, "Missing boundary")
    THEN Reply(400, "Invalid form data. Please ensure you are uploading a file correctly.")
    ELSE IF err.name = "ValidationError" THEN Reply(400, err.message)
    ELSE IF err.name = "CastError" THEN Reply(400, "Invalid data format")
    ELSE IF err.name = "MulterError"
    THEN Reply(400, IF err.message # "" THEN err.message ELSE "File upload error")
    ELSE IF err.message # ""
    THEN Reply(
            IF Includes(err.message, "not found") \/ Includes(err.message, "does not exist")
            THEN 404
            ELSE IF Includes(err.message, "unauthorized")
                    \/ Includes(err.message, "not authorized")
            THEN 401
            ELSE IF Includes(err.message, "forbidden")
                    \/ Includes(err.message, "access denied")
            THEN 403
            ELSE IF Includes(err.message, "validation") \/ Includes(err.message, "invalid")
            THEN 400
            ELSE IF Includes(err.message, "timeout") \/ Includes(err.message, "timed out")
            THEN 504
            ELSE 500,
            err.message)
    ELSE Reply(500, "Internal server error")

JsError(message) == [name |-> "Error", message |-> message]

\* What reading a property of null raises inside the scorer.
NullReadError ==
    [name |-> "TypeError", message |-> "Cannot read properties of null (reading 'skills')"]

(***************************************************************************)
(* aiService.js                                                            *)
(*                                                                         *)
(* An outbound call either gets a 2xx answer with a body or fails the way  *)
(* axios reports it: connection refused, timeout, a non-2xx answer, or     *)
(* another transport error.                                                *)
(***************************************************************************)
Refused ==
    [code |-> "ECONNREFUSED", response |-> FALSE, detail |-> "",
     message |-> "connect ECONNREFUSED 127.0.0.1:8000"]
TimedOut ==
    [code |-> "ECONNABORTED", response |-> FALSE, detail |-> "",
     message |-> "timeout of 120000ms exceeded"]
BadStatus ==
    [code |-> "ERR_BAD_RESPONSE", response |-> TRUE, detail |-> "Internal Server Error",
     message |-> "Request failed with status code 500"]
Reset ==
    [code |-> "ECONNRESET", response |-> FALSE, detail |-> "",
     message |-> "socket hang up"]

\* a 4xx answer whose body carries FastAPI's {"detail": ...}
Rejected ==
    [code |-> "ERR_BAD_REQUEST", response |-> TRUE, detail |-> "Text is invalid",
     message |-> "Request failed with status code 400"]

AxiosFailures == {Refused, TimedOut, BadStatus, Reset, Rejected}

\* if (!text || typeof text !== 'string' || text.trim().length < 10)
MinAnalyzeLen == 10

\* the characters of a text: its lines and the newlines between them
TextLength(text) ==
    LET n == CountLines(text.lines)
    IN  SumLines(text.lines, [k \in LineKinds |-> LineAttr(k).len])
            + (IF n > 0 THEN n - 1 ELSE 0)

\* text.trim().length: the literal lines neither start nor end with white space
TrimLength(text) == TextLength(text)

\* the test without its length clause
TooShortUnmeasured(text, min) ==
    \/ Falsy(text)
    \/ text.kind # "string"

TooShort(text, min) ==
    \/ Falsy(text)
    \/ text.kind # "string"
    \/ TrimLength(text) < min

\* extractSkills up to its awaited axios.post: the failure it raises without
\* sending anything, or nothing when the request goes out.
extractSkillsRejects(text) == TooShort(text, MinAnalyzeLen)

\* the catch block of extractSkills
extractSkillsError(e) ==
    IF e.code = "ECONNREFUSED"
    THEN JsError("AI service is not available. Please ensure the FastAPI service is running.")
    ELSE IF e.response
    THEN JsError("AI service error: " \o e.detail)
    ELSE IF e.code = "ECONNABORTED"
    THEN JsError("AI service request timed out. Please try again.")
    ELSE JsError("Failed to extract skills: " \o e.message)

\* the error the local check of extractSkills ends as: thrown inside the try
\* block, it passes through the same catch block
InvalidTextError ==
    extractSkillsError([code |-> "", response |-> FALSE, detail |-> "",
        message |-> "Invalid or insufficient text provided for skill extraction"])

\* the catch block of getStatus
getStatusError(e) == JsError("Failed to get AI service status: " \o e.message)

\* a catch block that drops the message of the failure it wraps
generateChatResponseErrorOpaque(e) ==
    IF e.code = "ECONNREFUSED" THEN JsError("AI Career Coach service is not available.")
    ELSE IF e.response THEN JsError("AI Chat error: " \o e.detail)
    ELSE JsError("Chat failed")

\* the catch block of generateChatResponse
generateChatResponseError(e) ==
    IF e.code = "ECONNREFUSED" THEN JsError("AI Career Coach service is not available.")
    ELSE IF e.response THEN JsError("AI Chat error: " \o e.detail)
    ELSE JsError("Chat failed: " \o e.message)

\* the catch block of generateCareerRoadmap
generateCareerRoadmapError(e) ==
    IF e.code = "ECONNREFUSED" THEN JsError("AI Career Coach service is not available.")
    ELSE IF e.response THEN JsError("Roadmap generation error: " \o e.detail)
    ELSE JsError("Roadmap generation failed: " \o e.message)

(***************************************************************************)
(* sessionStore.js                                                         *)
(*                                                                         *)
(* The store is a Map from id to session.  Its callers never hold a        *)
(* session across an await, so the Map is held by value.                   *)
(***************************************************************************)
NoId == ""                 \* an absent (undefined) session id
SessionIds == {"s1", "s2"}
Timestamp == "ts"          \* new Date().toISOString(): every instant alike
EmptyProfile == [k \in {} |-> 0]

hasSession(store, sessionId) == sessionId \in DOMAIN store

NewSession(id, userProfile) ==
    [id |-> id, history |-> <<>>, userProfile |-> userProfile, createdAt |-> Timestamp]

\* createSession(initial): genId is what `session_${Date.now()}_${random}` yields
createSession(store, id, userProfile, genId) ==
    LET sid == IF id # NoId THEN id ELSE genId
    IN  (sid :> NewSession(sid, userProfile)) @@ store

setSession(store, session) ==
    IF session.id = NoId THEN store ELSE (session.id :> session) @@ store

\* an ensureSession that would not look the id up
ensureSessionAlwaysCreates(store, sessionId, fallbackProfile, genId) ==
    createSession(store, sessionId, fallbackProfile, genId)

\* ensureSession(sessionId, fallbackProfile): the store afterwards
ensureSession(store, sessionId, fallbackProfile, genId) ==
    IF sessionId # NoId /\ hasSession(store, sessionId) THEN store
    ELSE createSession(store, sessionId, fallbackProfile, genId)

\* the id of the session ensureSession returns
EnsuredId(sessionId, genId) == IF sessionId # NoId THEN sessionId ELSE genId

\* a merge that would keep the updates alone
ReplaceProfile(userProfile, updates) == updates

\* { ...session.userProfile, ...updates }
MergeProfile(userProfile, updates) == updates @@ userProfile

updateUserProfile(store, sessionId, updates, genId) ==
    LET ensured == ensureSession(store, sessionId, EmptyProfile, genId)
        session == ensured[EnsuredId(sessionId, genId)]
    IN  setSession(ensured,
                   [session EXCEPT !.userProfile = MergeProfile(@, updates)])

(***************************************************************************)
(* upload.js: multer configuration, fileFilter, handleUploadErrors         *)
(***************************************************************************)
FileSizeLimit == 5 * 1024 * 1024

fileFilter(file) == file.mimetype = "application/pdf"

NoError == [name |-> "none", code |-> "", message |-> ""]
MulterError(code, message) == [name |-> "MulterError", code |-> code, message |-> message]

\* upload.single('resume') with the limits of upload.js: the error multer hands
\* to its callback, if any.
uploadPDF(req) ==
    IF ~req.file.attached THEN
        IF req.form = "truncated"
        THEN [name |-> "Error", code |-> "", message |-> "Unexpected end of form"]
        ELSE NoError
    ELSE IF req.form = "wrongField"
    THEN MulterError("LIMIT_UNEXPECTED_FILE", "Unexpected field")
    ELSE IF ~fileFilter(req.file)
    THEN [name |-> "Error", code |-> "", message |-> "Only PDF files are allowed"]
    ELSE IF req.file.size > FileSizeLimit
    THEN MulterError("LIMIT_FILE_SIZE", "File too large")
    ELSE IF req.form = "twoFiles"
    THEN MulterError("LIMIT_FILE_COUNT", "Too many files")
    ELSE IF req.form = "truncated"
    THEN [name |-> "Error", code |-> "", message |-> "Unexpected end of form"]
    ELSE NoError

\* handleUploadErrors: the 400 it answers, or what errorHandler answers when it
\* passes the error on.
handleUploadErrors(error) ==
    IF error.name = "MulterError" /\ error.code = "LIMIT_FILE_SIZE"
    THEN Reply(400, "File too large. Maximum size is 5MB.")
    ELSE IF error.name = "MulterError" /\ error.code = "LIMIT_FILE_COUNT"
    THEN Reply(400, "Too many files. Please upload only one file.")
    ELSE IF error.name = "MulterError" /\ error.code = "LIMIT_UNEXPECTED_FILE"
    THEN Reply(400, "Unexpected field name. Please use \"resume\" as the field name.")
    ELSE IF error.message # "" /\ Includes(error.message, "Unexpected end of form")
    THEN Reply(400, "Upload interrupted or incomplete. Please try uploading again.")
    ELSE IF error.message # "" /\ Includes(error.message, "Missing boundary")
    THEN Reply(400, "Invalid form data. Please ensure you are uploading a file correctly.")
    ELSE IF error.message = "Only PDF files are allowed"
    THEN Reply(400, "Invalid file type. Please upload a PDF file.")
    ELSE errorHandler(error)

(***************************************************************************)
(* Requests and responses                                                  *)
(***************************************************************************)
\* inflight is the set of suspended requests; at most MaxInflight requests are
\* suspended at a time, and two of them are never alike in every field.
MaxInflight == 2
CanSuspend(r) == Cardinality(inflight) < MaxInflight /\ r \notin inflight

\* The response written for request req of operation op.  calls counts the
\* requests this request sent to the AI service, parsed tells whether it
\* handed the upload to pdf-parse.
Respond(op, req, reply, calls, parsed) ==
    [op |-> op, req |-> req, status |-> reply.status, success |-> reply.success,
     message |-> reply.message, data |-> IF "data" \in DOMAIN reply THEN reply.data ELSE Null,
     calls |-> calls, parsed |-> parsed]

Ok(status, message, data) ==
    [status |-> status, success |-> TRUE, message |-> message, data |-> data]

\* App and Chatbot as first rendered
AppStart ==
    /\ view = "chat"
    /\ currentRoadmap = [kind |-> "null"]
    /\ chatbot = [sessionId |-> "", messages |-> <<>>, isLoading |-> FALSE,
                  creating |-> TRUE, pending |-> 0, carried |-> <<>>]
    /\ systemStatus = [healthStatus |-> Null, isLoading |-> TRUE,
                       outcome |-> [kind |-> "none"]]
    /\ resumePage = [isLoading |-> FALSE, error |-> Null, analysisResult |-> Null,
                     ats |-> Null, prevAts |-> Null, closureAts |-> Null,
                     earlierAts |-> Null]

ServerIdle ==
    /\ AppStart
    /\ chatSessions = <<>>
    /\ heap = <<>>
    /\ storeSessions = <<>>
    /\ inflight = {}
    /\ lastResponse = [op |-> "none"]
    /\ everCreated = {}

(***************************************************************************)
(* resume.js: POST /upload                                                 *)
(***************************************************************************)
MinResumeLen == 50
PreviewLen == 500

\* Array.from(new Map([...currentSkills, ...extractedSkills]
\*     .map(s => [String(s).toLowerCase(), String(s)])).values())
\* A Map keeps a key at the place of its first insertion and the value of its
\* last one.
RECURSIVE MapValues(_, _)
MapValues(entries, seen) ==
    IF entries = <<>> THEN <<>>
    ELSE LET key == ToLowerCase(Head(entries)) IN
         IF key \in seen THEN MapValues(Tail(entries), seen)
         ELSE LET same == SelectSeq(entries, LAMBDA s : ToLowerCase(s) = key)
              IN  <<same[Len(same)]>> \o MapValues(Tail(entries), seen \cup {key})

MergeSkills(currentSkills, extractedSkills) ==
    MapValues(currentSkills \o extractedSkills, {})

\* the handler without its check of the length of the extracted text
UploadCheckNoMinimum(req) ==
    IF ~req.file.attached
    THEN Reply(400, "No file uploaded. Please upload a PDF resume.")
    ELSE IF ~req.file.bufferOk
    THEN Reply(400, "Uploaded file buffer is invalid. Please try again.")
    ELSE IF req.file.pdf = Null
    THEN Reply(400, "Failed to parse PDF file. Please ensure it's a valid PDF document.")
    ELSE Null

\* the handler up to its first awaited AI call: the 400 it answers, or Null
\* when it goes on to extractSkills
UploadCheck(req) ==
    IF ~req.file.attached
    THEN Reply(400, "No file uploaded. Please upload a PDF resume.")
    ELSE IF ~req.file.bufferOk
    THEN Reply(400, "Uploaded file buffer is invalid. Please try again.")
    ELSE IF req.file.pdf = Null      \* pdf-parse throws
    THEN Reply(400, "Failed to parse PDF file. Please ensure it's a valid PDF document.")
    ELSE IF TooShort(req.file.pdf, MinResumeLen)
    THEN Reply(400, "Insufficient text content in resume. Please upload a resume with more detailed content.")
    ELSE Null

\* whether the handler reaches pdf-parse
UploadParses(req) == req.file.attached /\ req.file.bufferOk

\* A request arrives.  multer and pdf-parse are awaited, but nothing shared is
\* read or written before the AI call, so the request runs to its 400 or to the
\* call of extractSkills in one step.
UploadStart(req) ==
    /\ LET error == uploadPDF(req)
           r == [op |-> "upload", req |-> req, text |-> req.file.pdf, calls |-> 1]
       IN
       IF error # NoError
       THEN /\ lastResponse' = Respond("upload", req, handleUploadErrors(error), 0, FALSE)
            /\ UNCHANGED inflight
       ELSE IF UploadCheck(req) # Null
       THEN /\ lastResponse' =
                   Respond("upload", req, UploadCheck(req), 0, UploadParses(req))
            /\ UNCHANGED inflight
       ELSE IF extractSkillsRejects(req.file.pdf)
       THEN /\ lastResponse' =
                   Respond("upload", req, errorHandler(InvalidTextError), 0, TRUE)
            /\ UNCHANGED inflight
       ELSE /\ CanSuspend(r)
            /\ inflight' = inflight \cup {r}
            /\ UNCHANGED lastResponse
    /\ UNCHANGED <<chatSessions, heap, storeSessions, everCreated, atsVars, appVars>>

\* skillsResult.data?.skills when it is an array, else []
ExtractedSkills(body) == IF Has(body, "skills") THEN body.skills ELSE <<>>

CurrentSkills(session) ==
    IF "skills" \in DOMAIN session.userProfile THEN session.userProfile["skills"] ELSE <<>>

ResumeRecord(req, text, body) ==
    [uploadedAt |-> Timestamp, fileName |-> req.file.originalname,
     textPreview |-> Min(TextLength(text), PreviewLen),
     categories |-> IF Has(body, "categories") THEN body.categories ELSE <<>>,
     confidence |-> IF Has(body, "confidence_scores") THEN body.confidence_scores
                    ELSE EmptyProfile]

\* the session block replacing the skills by the extracted ones
UploadMergeReplacing(store, req, text, body) ==
    LET ensured == ensureSession(store, req.sessionId, EmptyProfile, NoId)
        currentSession == ensured[req.sessionId]
    IN  updateUserProfile(ensured, currentSession.id,
            ("skills" :> ExtractedSkills(body))
               @@ ("resume" :> ResumeRecord(req, text, body)), NoId)

\* the store after the session block of the handler
UploadMerge(store, req, text, body) ==
    LET ensured == ensureSession(store, req.sessionId, EmptyProfile, NoId)
        currentSession == ensured[req.sessionId]
        merged == MergeSkills(CurrentSkills(currentSession), ExtractedSkills(body))
    IN  updateUserProfile(ensured, currentSession.id,
            ("skills" :> merged) @@ ("resume" :> ResumeRecord(req, text, body)), NoId)

\* The AI call of an upload settles: failed, or answered with body.
UploadFinish(r, failed, e, body) ==
    /\ r \in inflight
    /\ r.op = "upload"
    /\ inflight' = inflight \ {r}
    /\ LET scored == scoreResume(r.text, body)
       IN
       IF failed
       THEN /\ lastResponse' =
                   Respond("upload", r.req, errorHandler(extractSkillsError(e)), r.calls, TRUE)
            /\ UNCHANGED <<storeSessions, everCreated>>
       ELSE IF scored.threw
       THEN /\ lastResponse' =
                   Respond("upload", r.req, errorHandler(NullReadError), r.calls, TRUE)
            /\ UNCHANGED <<storeSessions, everCreated>>
       ELSE LET store == IF r.req.sessionId # NoId
                         THEN UploadMerge(storeSessions, r.req, r.text, body)
                         ELSE storeSessions
                data == [analysis |-> body, ats |-> scored.value,
                         summary |->
                            [resumeSummary |->
                                 generateResumeSummary(body, scored.value).value,
                             improvements |-> summarizeImprovements(scored.value).value],
                         session |-> IF r.req.sessionId # NoId
                                     THEN [id |-> store[r.req.sessionId].id,
                                           userProfile |-> store[r.req.sessionId].userProfile]
                                     ELSE Null]
            IN  /\ storeSessions' = store
                /\ everCreated' = everCreated \cup (DOMAIN store)
                /\ lastResponse' =
                       Respond("upload", r.req,
                               Ok(200, "Resume uploaded and analyzed successfully", data),
                               r.calls, TRUE)
    /\ UNCHANGED <<chatSessions, heap, atsVars, appVars>>

(***************************************************************************)
(* resume.js: POST /analyze-text                                           *)
(***************************************************************************)
AnalyzeStart(req) ==
    /\ LET r == [op |-> "analyze-text", req |-> req, text |-> req.text, calls |-> 1] IN
       IF TooShort(req.text, MinAnalyzeLen)
       THEN /\ lastResponse' = Respond("analyze-text", req,
                   Reply(400, "Please provide valid text content for analysis (minimum 10 characters)."),
                   0, FALSE)
            /\ UNCHANGED inflight
       ELSE IF extractSkillsRejects(req.text)
       THEN /\ lastResponse' =
                   Respond("analyze-text", req, errorHandler(InvalidTextError), 0, FALSE)
            /\ UNCHANGED inflight
       ELSE /\ CanSuspend(r)
            /\ inflight' = inflight \cup {r}
            /\ UNCHANGED lastResponse
    /\ UNCHANGED <<chatSessions, heap, storeSessions, everCreated, atsVars, appVars>>

\* textStats of the answer is left out: no claim reads the word count.
AnalyzeFinish(r, failed, e, body) ==
    /\ r \in inflight
    /\ r.op = "analyze-text"
    /\ inflight' = inflight \ {r}
    /\ LET scored == scoreResume(r.text, body) IN
       lastResponse' =
          IF failed
          THEN Respond("analyze-text", r.req, errorHandler(extractSkillsError(e)),
                       r.calls, FALSE)
          ELSE IF scored.threw
          THEN Respond("analyze-text", r.req, errorHandler(NullReadError), r.calls, FALSE)
          ELSE Respond("analyze-text", r.req,
                  Ok(200, "Text analyzed successfully",
                     [analysis |-> body, ats |-> scored.value,
                      summary |->
                         [resumeSummary |-> generateResumeSummary(body, scored.value).value,
                          improvements |-> summarizeImprovements(scored.value).value]]),
                  r.calls, FALSE)
    /\ UNCHANGED <<chatSessions, heap, storeSessions, everCreated, atsVars, appVars>>

(***************************************************************************)
(* resume.js: GET /ai-status                                               *)
(***************************************************************************)
\* const isHealthy = await aiService.checkHealth()
AiStatusStart ==
    /\ LET r == [op |-> "ai-status", stage |-> "checkHealth", calls |-> 1] IN
       /\ CanSuspend(r)
       /\ inflight' = inflight \cup {r}
    /\ UNCHANGED <<chatSessions, heap, storeSessions, lastResponse, everCreated, atsVars, appVars>>

\* checkHealth settles: true on an answer with status 200, false on anything
\* else; when true the handler goes on to await getStatus.
CheckHealthSettles(r, isHealthy) ==
    /\ r \in inflight
    /\ r.op = "ai-status" /\ r.stage = "checkHealth"
    /\ IF isHealthy
       THEN /\ [r EXCEPT !.stage = "getStatus", !.calls = @ + 1] \notin inflight
            /\ inflight' = (inflight \ {r})
                              \cup {[r EXCEPT !.stage = "getStatus", !.calls = @ + 1]}
            /\ UNCHANGED lastResponse
       ELSE /\ inflight' = inflight \ {r}
            /\ lastResponse' = Respond("ai-status", Null,
                   Ok(200, "AI service status retrieved",
                      [isHealthy |-> FALSE, status |-> Null, timestamp |-> Timestamp]),
                   r.calls, FALSE)
    /\ UNCHANGED <<chatSessions, heap, storeSessions, everCreated, atsVars, appVars>>

\* getStatus settles: the body of the answer, or the failure it wraps and throws
GetStatusSettles(r, failed, e) ==
    /\ r \in inflight
    /\ r.op = "ai-status" /\ r.stage = "getStatus"
    /\ inflight' = inflight \ {r}
    /\ lastResponse' =
          IF failed
          THEN Respond("ai-status", Null, errorHandler(getStatusError(e)), r.calls, FALSE)
          ELSE Respond("ai-status", Null,
                  Ok(200, "AI service status retrieved",
                     [isHealthy |-> TRUE, status |-> EmptyObject, timestamp |-> Timestamp]),
                  r.calls, FALSE)
    /\ UNCHANGED <<chatSessions, heap, storeSessions, everCreated, atsVars, appVars>>

(***************************************************************************)
(* aiService.extractSkills called on its own                               *)
(***************************************************************************)
ExtractSkillsCall(text) ==
    /\ LET r == [op |-> "extractSkills", req |-> text, calls |-> 1] IN
       IF extractSkillsRejects(text)
       THEN /\ lastResponse' =
                   Respond("extractSkills", text,
                           [status |-> 0, success |-> FALSE,
                            message |-> InvalidTextError.message], 0, FALSE)
            /\ UNCHANGED inflight
       ELSE /\ CanSuspend(r)
            /\ inflight' = inflight \cup {r}
            /\ UNCHANGED lastResponse
    /\ UNCHANGED <<chatSessions, heap, storeSessions, everCreated, atsVars, appVars>>

ExtractSkillsSettles(r, failed, e, body) ==
    /\ r \in inflight
    /\ r.op = "extractSkills"
    /\ inflight' = inflight \ {r}
    /\ lastResponse' =
          IF failed
          THEN Respond("extractSkills", r.req,
                       [status |-> 0, success |-> FALSE,
                        message |-> extractSkillsError(e).message], r.calls, FALSE)
          ELSE Respond("extractSkills", r.req,
                       Ok(0, "Skills extracted successfully", body), r.calls, FALSE)
    /\ UNCHANGED <<chatSessions, heap, storeSessions, everCreated, atsVars, appVars>>

(***************************************************************************)
(* SpecUpload, SpecAnalyze: the resume routes                              *)
(***************************************************************************)
\* A text of 6 characters, one of 21 and the text of the analyze-text scenario
ShortText == StringOf([NoLines EXCEPT !["hSkills"] = 1])
MidText == StringOf([NoLines EXCEPT !["verb"] = 1])

Pdf(mimetype, size, bufferOk, pdf) ==
    [attached |-> TRUE, originalname |-> "cv.pdf", mimetype |-> mimetype, size |-> size,
     bufferOk |-> bufferOk, pdf |-> pdf]

NoFile ==
    [attached |-> FALSE, originalname |-> "", mimetype |-> "", size |-> 0,
     bufferOk |-> FALSE, pdf |-> Null]

GoodPdf == Pdf("application/pdf", 2048, TRUE, PitchText)

UploadFiles ==
    {NoFile, GoodPdf,
     Pdf("image/png", 2048, TRUE, Null),
     Pdf("image/png", FileSizeLimit + 1, TRUE, Null),
     Pdf("application/pdf", FileSizeLimit, TRUE, ShortText),
     Pdf("application/pdf", FileSizeLimit + 1, TRUE, PitchText),
     Pdf("application/pdf", 2048, FALSE, PitchText),
     Pdf("application/pdf", 2048, TRUE, Null),
     Pdf("application/pdf", 2048, TRUE, StringOf(NoLines)),
     Pdf("application/pdf", 2048, TRUE, ShortText),
     Pdf("application/pdf", 2048, TRUE, MidText)}

\* Uploads that reach the AI service come with or without a session id; the
\* ones the handler turns away carry the id of a session, the case in which a
\* session could be touched.
UploadRequests ==
    {[sessionId |-> sid, form |-> "ok", file |-> GoodPdf] : sid \in SessionIds \cup {NoId}}
    \cup {[sessionId |-> "s1", form |-> "ok", file |-> f] : f \in UploadFiles}
    \cup {[sessionId |-> "s1", form |-> form, file |-> f] :
            form \in {"truncated", "wrongField", "twoFiles"}, f \in {NoFile, GoodPdf}}

AnalyzeRequests ==
    {[text |-> t] : t \in {Undefined, [kind |-> "number"], StringOf(NoLines),
                           ShortText, MidText, PitchText}}

Extracted(skills) ==
    [kind |-> "object", has |-> {"skills", "categories", "confidence_scores"},
     skills |-> skills, categories |-> <<"Languages">>,
     confidence_scores |-> [s \in {skills[i] : i \in 1..Len(skills)} |-> 90]]

ExtractBodies == {Null, Extracted(<<"Python">>), Extracted(<<"python", "React">>)}

InitServer ==
    /\ ServerIdle
    /\ atsPc = "start"
    /\ resumeText = Undefined
    /\ analysis = Undefined
    /\ atsArg = Undefined
    /\ ats = [threw |-> FALSE, value |-> [kind |-> "none"]]
    /\ summary = [threw |-> FALSE, value |-> [kind |-> "none"]]
    /\ improvements = [threw |-> FALSE, value |-> [kind |-> "none"]]
    /\ sectionLastIndex = [section \in Range(SectionKeys) |-> 0]
    /\ scoredBefore = <<>>

NextUpload ==
    \/ \E req \in UploadRequests : UploadStart(req)
    \/ \E r \in inflight, e \in AxiosFailures : UploadFinish(r, TRUE, e, Null)
    \/ \E r \in inflight, body \in ExtractBodies : UploadFinish(r, FALSE, Refused, body)

SpecUpload == InitServer /\ [][NextUpload]_vars

NextAnalyze ==
    \/ \E req \in AnalyzeRequests : AnalyzeStart(req)
    \/ \E r \in inflight, e \in AxiosFailures : AnalyzeFinish(r, TRUE, e, Null)
    \/ \E r \in inflight, body \in ExtractBodies : AnalyzeFinish(r, FALSE, Refused, body)
    \/ AiStatusStart
    \/ \E r \in inflight, isHealthy \in BOOLEAN : CheckHealthSettles(r, isHealthy)
    \/ \E r \in inflight, e \in AxiosFailures : GetStatusSettles(r, TRUE, e)
    \/ \E r \in inflight : GetStatusSettles(r, FALSE, Refused)
    \/ \E req \in AnalyzeRequests : ExtractSkillsCall(req.text)
    \/ \E r \in inflight, e \in AxiosFailures : ExtractSkillsSettles(r, TRUE, e, Null)
    \/ \E r \in inflight, body \in ExtractBodies : ExtractSkillsSettles(r, FALSE, Refused, body)

SpecAnalyze == InitServer /\ [][NextAnalyze]_vars

(***************************************************************************)
(* chat.js                                                                 *)
(*                                                                         *)
(* chat.js keeps its own Map, chatSessions, of session objects.  A handler *)
(* holds the object it took from the Map across its awaited AI call, so    *)
(* the objects live in a heap and the Map holds their addresses.           *)
(***************************************************************************)
MaxHistory == 2

\* the addresses the Map or a suspended request still holds
Referenced(map, requests) ==
    {map[id] : id \in DOMAIN map}
        \cup {r.addr : r \in {q \in requests : q.op = "message"}}

\* objects nothing refers to any more are gone
Collect(h, map, requests) ==
    [a \in (DOMAIN h) \cap Referenced(map, requests) |-> h[a]]

\* the address of a new object
NewAddr ==
    CHOOSE a \in 1..(Cardinality(DOMAIN heap) + 1) :
        a \notin DOMAIN heap /\ \A b \in 1..(a - 1) : b \in DOMAIN heap

\* the messages a suspended request will still push onto the object at addr
Pending(addr) == Cardinality({r \in inflight : r.op = "message" /\ r.addr = addr})

\* POST /session: sessionId is what `session_${Date.now()}_${random}` yields
CreateChatSession(req, sessionId) ==
    /\ LET session ==
              [id |-> sessionId, history |-> <<>>,
               userProfile |->
                   ("skills" :> req.skills) @@ ("createdAt" :> Timestamp)
                       @@ req.userProfile,
               createdAt |-> Timestamp]
           map == (sessionId :> NewAddr) @@ chatSessions
       IN  /\ chatSessions' = map
           /\ heap' = Collect((NewAddr :> session) @@ heap, map, inflight)
    /\ everCreated' = everCreated \cup {sessionId}
    /\ lastResponse' = Respond("session", req,
           Ok(201, "", [sessionId |-> sessionId, message |-> "Session created successfully"]),
           0, FALSE)
    /\ UNCHANGED <<storeSessions, inflight, atsVars, appVars>>

\* !message || !message.trim()
Blank(message) == message \in {"", " "}

\* a history forwarded as it is stored
FormatHistoryWhole(history) == history

\* session.history.map(msg => ({ role: msg.role, content: msg.content }))
FormatHistory(history) ==
    [i \in 1..Len(history) |-> [role |-> history[i].role, content |-> history[i].content]]

\* POST /message up to its awaited call: genId is what `session_${Date.now()}`
\* yields when the request names no session; limit bounds the history the
\* model lets a session grow to
MessageStartWithin(req, genId, limit) ==
    /\ IF Blank(req.message)
       THEN /\ lastResponse' =
                   Respond("message", req, Reply(400, "Message cannot be empty"), 0, FALSE)
            /\ UNCHANGED <<heap, inflight>>
       ELSE LET known == req.sessionId \in DOMAIN chatSessions
                addr == IF known THEN chatSessions[req.sessionId] ELSE NewAddr
                fresh == [id |-> IF req.sessionId # NoId THEN req.sessionId ELSE genId,
                          history |-> <<>>,
                          userProfile |-> req.userProfile,
                          createdAt |-> Timestamp]
                session == IF known THEN heap[addr] ELSE fresh
                pushed == [session EXCEPT !.history =
                              Append(@, [role |-> "user", content |-> req.message,
                                         timestamp |-> Timestamp])]
                r == [op |-> "message", req |-> req, addr |-> addr,
                      sent |-> [message |-> req.message,
                                history |-> FormatHistory(pushed.history),
                                userProfile |-> pushed.userProfile],
                      calls |-> 1]
            IN  /\ Len(session.history) + Pending(addr) + 2 <= limit
                /\ CanSuspend(r)
                /\ heap' = (addr :> pushed) @@ heap
                /\ inflight' = inflight \cup {r}
                /\ UNCHANGED lastResponse
    /\ UNCHANGED <<chatSessions, storeSessions, everCreated, atsVars, appVars>>

MessageStart(req, genId) == MessageStartWithin(req, genId, MaxHistory)

\* a handler that would leave a session stored in the meantime in place
MessageFinishFirstWins(r, failed, e, aiResponse) ==
    /\ r \in inflight
    /\ r.op = "message"
    /\ IF failed
       THEN /\ lastResponse' =
                   Respond("message", r.req, errorHandler(generateChatResponseError(e)),
                           r.calls, FALSE)
            /\ heap' = Collect(heap, chatSessions, inflight \ {r})
            /\ UNCHANGED <<chatSessions, everCreated>>
       ELSE LET session == [heap[r.addr] EXCEPT !.history =
                               Append(@, [role |-> "assistant",
                                          content |-> aiResponse.message,
                                          data |-> aiResponse.data,
                                          timestamp |-> Timestamp])]
                map == chatSessions @@ (session.id :> r.addr)
            IN  /\ chatSessions' = map
                /\ heap' = Collect((r.addr :> session) @@ heap, map, inflight \ {r})
                /\ everCreated' = everCreated \cup {session.id}
                /\ lastResponse' =
                       Respond("message", r.req,
                               Ok(200, "",
                                  [sessionId |-> session.id, message |-> aiResponse.message,
                                   data |-> aiResponse.data,
                                   suggestions |-> aiResponse.suggestions]),
                               r.calls, FALSE)
    /\ inflight' = inflight \ {r}
    /\ UNCHANGED <<storeSessions, atsVars, appVars>>

\* the awaited generateChatResponse settles
MessageFinish(r, failed, e, aiResponse) ==
    /\ r \in inflight
    /\ r.op = "message"
    /\ IF failed
       THEN /\ lastResponse' =
                   Respond("message", r.req, errorHandler(generateChatResponseError(e)),
                           r.calls, FALSE)
            /\ heap' = Collect(heap, chatSessions, inflight \ {r})
            /\ UNCHANGED <<chatSessions, everCreated>>
       ELSE LET session == [heap[r.addr] EXCEPT !.history =
                               Append(@, [role |-> "assistant",
                                          content |-> aiResponse.message,
                                          data |-> aiResponse.data,
                                          timestamp |-> Timestamp])]
                map == (session.id :> r.addr) @@ chatSessions
            IN  /\ chatSessions' = map
                /\ heap' = Collect((r.addr :> session) @@ heap, map, inflight \ {r})
                /\ everCreated' = everCreated \cup {session.id}
                /\ lastResponse' =
                       Respond("message", r.req,
                               Ok(200, "",
                                  [sessionId |-> session.id, message |-> aiResponse.message,
                                   data |-> aiResponse.data,
                                   suggestions |-> aiResponse.suggestions]),
                               r.calls, FALSE)
    /\ inflight' = inflight \ {r}
    /\ UNCHANGED <<storeSessions, atsVars, appVars>>

\* POST /roadmap without its check of targetRole
RoadmapStartUnchecked(req) ==
    /\ LET r == [op |-> "roadmap", req |-> req, calls |-> 1] IN
       /\ CanSuspend(r)
       /\ inflight' = inflight \cup {r}
    /\ UNCHANGED <<chatSessions, heap, storeSessions, lastResponse, everCreated, atsVars, appVars>>

\* POST /roadmap up to its awaited call
RoadmapStart(req) ==
    /\ LET r == [op |-> "roadmap", req |-> req, calls |-> 1] IN
       IF req.targetRole = ""
       THEN /\ lastResponse' =
                   Respond("roadmap", req, Reply(400, "Target role is required"), 0, FALSE)
            /\ UNCHANGED inflight
       ELSE /\ CanSuspend(r)
            /\ inflight' = inflight \cup {r}
            /\ UNCHANGED lastResponse
    /\ UNCHANGED <<chatSessions, heap, storeSessions, everCreated, atsVars, appVars>>

\* a handler that would store a profile of the target role and roadmap alone
RoadmapFinishReplacesProfile(r, failed, e, roadmap) ==
    /\ r \in inflight
    /\ r.op = "roadmap"
    /\ IF failed
       THEN /\ lastResponse' =
                   Respond("roadmap", r.req, errorHandler(generateCareerRoadmapError(e)),
                           r.calls, FALSE)
            /\ UNCHANGED heap
       ELSE /\ heap' =
                   IF r.req.sessionId # NoId /\ r.req.sessionId \in DOMAIN chatSessions
                   THEN [heap EXCEPT ![chatSessions[r.req.sessionId]].userProfile =
                            ("targetRole" :> r.req.targetRole) @@ ("roadmap" :> roadmap)]
                   ELSE heap
            /\ lastResponse' = Respond("roadmap", r.req, Ok(200, "", roadmap), r.calls, FALSE)
    /\ inflight' = inflight \ {r}
    /\ UNCHANGED <<chatSessions, storeSessions, everCreated, atsVars, appVars>>

\* a handler that would call generateCareerRoadmap a second time when the
\* first call fails
RoadmapFinishRetrying(r, failed, e, roadmap) ==
    /\ r \in inflight
    /\ r.op = "roadmap"
    /\ IF failed /\ r.calls < 2
       THEN /\ inflight' = (inflight \ {r}) \cup {[r EXCEPT !.calls = @ + 1]}
            /\ UNCHANGED <<heap, lastResponse>>
       ELSE IF failed
       THEN /\ lastResponse' =
                   Respond("roadmap", r.req, errorHandler(generateCareerRoadmapError(e)),
                           r.calls, FALSE)
            /\ inflight' = inflight \ {r}
            /\ UNCHANGED heap
       ELSE /\ heap' =
                   IF r.req.sessionId # NoId /\ r.req.sessionId \in DOMAIN chatSessions
                   THEN [heap EXCEPT ![chatSessions[r.req.sessionId]].userProfile =
                            ("targetRole" :> r.req.targetRole) @@ ("roadmap" :> roadmap) @@ @]
                   ELSE heap
            /\ lastResponse' = Respond("roadmap", r.req, Ok(200, "", roadmap), r.calls, FALSE)
            /\ inflight' = inflight \ {r}
    /\ UNCHANGED <<chatSessions, storeSessions, everCreated, atsVars, appVars>>

\* the awaited generateCareerRoadmap settles
RoadmapFinish(r, failed, e, roadmap) ==
    /\ r \in inflight
    /\ r.op = "roadmap"
    /\ IF failed
       THEN /\ lastResponse' =
                   Respond("roadmap", r.req, errorHandler(generateCareerRoadmapError(e)),
                           r.calls, FALSE)
            /\ UNCHANGED heap
       ELSE /\ heap' =
                   IF r.req.sessionId # NoId /\ r.req.sessionId \in DOMAIN chatSessions
                   THEN [heap EXCEPT ![chatSessions[r.req.sessionId]].userProfile =
                            ("targetRole" :> r.req.targetRole) @@ ("roadmap" :> roadmap) @@ @]
                   ELSE heap
            /\ lastResponse' = Respond("roadmap", r.req, Ok(200, "", roadmap), r.calls, FALSE)
    /\ inflight' = inflight \ {r}
    /\ UNCHANGED <<chatSessions, storeSessions, everCreated, atsVars, appVars>>

\* GET /history/:sessionId
GetHistory(sessionId) ==
    /\ lastResponse' =
          IF sessionId \notin DOMAIN chatSessions
          THEN Respond("history", [sessionId |-> sessionId], Reply(404, "Session not found"), 0, FALSE)
          ELSE LET session == heap[chatSessions[sessionId]] IN
               Respond("history", [sessionId |-> sessionId],
                       Ok(200, "", [sessionId |-> session.id, history |-> session.history,
                                    userProfile |-> session.userProfile,
                                    createdAt |-> session.createdAt]),
                       0, FALSE)
    /\ UNCHANGED <<chatSessions, heap, storeSessions, inflight, everCreated, atsVars, appVars>>

\* DELETE /session/:sessionId answering without deleting
DeleteKeepsSession(sessionId) ==
    /\ lastResponse' =
          IF sessionId \in DOMAIN chatSessions
          THEN Respond("delete", [sessionId |-> sessionId], Ok(200, "Session deleted successfully", Null),
                       0, FALSE)
          ELSE Respond("delete", [sessionId |-> sessionId], Reply(404, "Session not found"), 0, FALSE)
    /\ UNCHANGED <<chatSessions, heap, storeSessions, inflight, everCreated, atsVars, appVars>>

\* DELETE /session/:sessionId
DeleteChatSession(sessionId) ==
    /\ IF sessionId \in DOMAIN chatSessions
       THEN LET map == [id \in (DOMAIN chatSessions) \ {sessionId} |-> chatSessions[id]] IN
            /\ chatSessions' = map
            /\ heap' = Collect(heap, map, inflight)
            /\ lastResponse' = Respond("delete", [sessionId |-> sessionId],
                   Ok(200, "Session deleted successfully", Null), 0, FALSE)
       ELSE /\ lastResponse' =
                   Respond("delete", [sessionId |-> sessionId], Reply(404, "Session not found"), 0, FALSE)
            /\ UNCHANGED <<chatSessions, heap>>
    /\ UNCHANGED <<storeSessions, inflight, everCreated, atsVars, appVars>>

(***************************************************************************)
(* SpecChat: sessions created, talked to, read and deleted                 *)
(***************************************************************************)
SessionRequests == {[userProfile |-> EmptyProfile, skills |-> <<"Python">>]}

MessageRequests ==
    {[sessionId |-> sid, message |-> m, userProfile |-> EmptyProfile] :
        sid \in {"s1", NoId}, m \in {"", "a"}}

ChatReplies == {[message |-> "ok", data |-> Null, suggestions |-> <<>>]}

ChatFailures == {Refused, TimedOut}

NextChat ==
    \/ \E req \in SessionRequests, sid \in SessionIds : CreateChatSession(req, sid)
    \/ \E req \in MessageRequests, genId \in SessionIds : MessageStart(req, genId)
    \/ \E r \in inflight, e \in ChatFailures : MessageFinish(r, TRUE, e, Null)
    \/ \E r \in inflight, reply \in ChatReplies : MessageFinish(r, FALSE, Refused, reply)
    \/ \E sid \in SessionIds : GetHistory(sid)
    \/ \E sid \in SessionIds : DeleteChatSession(sid)

SpecChat == InitServer /\ [][NextChat]_vars

(***************************************************************************)
(* SpecRoadmap: roadmaps asked for while sessions come and go              *)
(***************************************************************************)
RoadmapRequests ==
    {[sessionId |-> sid, targetRole |-> "", currentSkills |-> sk, timeline |-> tl] :
        sid \in SessionIds \cup {NoId}, sk \in {<<>>, <<"Python">>}, tl \in {"", "3 months"}}
    \cup {[sessionId |-> sid, targetRole |-> "Dev", currentSkills |-> <<"Python">>,
           timeline |-> "3 months"] : sid \in {"s1", NoId}}

Roadmaps == {[role |-> "Dev", phases |-> <<"basics">>]}

NextRoadmap ==
    \/ \E req \in SessionRequests, sid \in SessionIds : CreateChatSession(req, sid)
    \/ \E req \in RoadmapRequests : RoadmapStart(req)
    \/ \E r \in inflight, e \in ChatFailures : RoadmapFinish(r, TRUE, e, Null)
    \/ \E r \in inflight, roadmap \in Roadmaps : RoadmapFinish(r, FALSE, Refused, roadmap)
    \/ \E sid \in SessionIds : GetHistory(sid)
    \/ \E sid \in SessionIds : DeleteChatSession(sid)

SpecRoadmap == InitServer /\ [][NextRoadmap]_vars

(***************************************************************************)
(* SpecProfile: a resume uploaded under a session id the chat routes use   *)
(***************************************************************************)
ChatUploads == {[sessionId |-> "s1", form |-> "ok", file |-> GoodPdf]}

ProfileMessages == {[sessionId |-> "s1", message |-> "a", userProfile |-> EmptyProfile]}

NextProfile ==
    \/ \E req \in SessionRequests : CreateChatSession(req, "s1")
    \/ \E req \in ChatUploads : UploadStart(req)
    \/ \E r \in inflight : UploadFinish(r, TRUE, Refused, Null)
    \/ \E r \in inflight : UploadFinish(r, FALSE, Refused, Extracted(<<"python", "React">>))
    \/ \E req \in ProfileMessages : MessageStart(req, "s1")
    \/ \E r \in inflight, e \in ChatFailures : MessageFinish(r, TRUE, e, Null)
    \/ \E r \in inflight, reply \in ChatReplies : MessageFinish(r, FALSE, Refused, reply)
    \/ GetHistory("s1")

SpecProfile == InitServer /\ [][NextProfile]_vars

(***************************************************************************)
(* SpecStore: the session store of resume.js called directly               *)
(***************************************************************************)
\* `session_${Date.now()}_${Math.random().toString(36).slice(2, 9)}`: a clock
\* reading and a random suffix; neither is checked against the store.
GenId(now, random) == "session_" \o now \o "_" \o random

Times == {"1", "2"}        \* Date.now() readings
Randoms == {"a"}           \* Math.random() suffixes
GeneratedIds == {GenId(t, r) : t \in Times, r \in Randoms}

getSession(store, sessionId) ==
    IF sessionId \in DOMAIN store THEN store[sessionId] ELSE Null

appendHistory(store, sessionId, message, genId) ==
    LET ensured == ensureSession(store, sessionId, EmptyProfile, genId)
        session == ensured[EnsuredId(sessionId, genId)]
    IN  setSession(ensured, [session EXCEPT !.history = Append(@, message)])

deleteSession(store, sessionId) ==
    [k \in (DOMAIN store) \ {sessionId} |-> store[k]]

\* What a direct call leaves behind: its arguments and the id of the session
\* it returned.
StoreCall(op, req, id) ==
    /\ lastResponse' = [op |-> op, req |-> req, id |-> id]
    /\ UNCHANGED <<chatSessions, heap, inflight, everCreated, atsVars, appVars>>

CreateSessionCall(id, userProfile, genId) ==
    /\ storeSessions' = createSession(storeSessions, id, userProfile, genId)
    /\ StoreCall("createSession", [id |-> id, arg |-> userProfile],
                 EnsuredId(id, genId))

EnsureSessionCall(sessionId, fallbackProfile, genId) ==
    /\ storeSessions' = ensureSession(storeSessions, sessionId, fallbackProfile, genId)
    /\ StoreCall("ensureSession", [id |-> sessionId, arg |-> fallbackProfile],
                 EnsuredId(sessionId, genId))

UpdateUserProfileCall(sessionId, updates, genId) ==
    /\ storeSessions' = updateUserProfile(storeSessions, sessionId, updates, genId)
    /\ StoreCall("updateUserProfile", [id |-> sessionId, arg |-> updates],
                 EnsuredId(sessionId, genId))

AppendHistoryCall(sessionId, message, genId) ==
    /\ LET session == getSession(storeSessions, sessionId)
       IN  session # Null => Len(session.history) < MaxHistory
    /\ storeSessions' = appendHistory(storeSessions, sessionId, message, genId)
    /\ StoreCall("appendHistory", [id |-> sessionId, arg |-> message],
                 EnsuredId(sessionId, genId))

DeleteSessionCall(sessionId) ==
    /\ storeSessions' = deleteSession(storeSessions, sessionId)
    /\ StoreCall("deleteSession", [id |-> sessionId, arg |-> Null], sessionId)

\* the ids a caller passes: none, or one a session was created under earlier
StoreIds == {NoId, GenId("1", "a")}
StoreProfiles == {[targetRole |-> "Dev"]}
StoreUpdates == {[skills |-> <<"Python">>], [targetRole |-> "QA"]}
StoreMessages == {[role |-> "user", content |-> "a"]}

NextStore ==
    \/ \E id \in StoreIds, p \in StoreProfiles, g \in GeneratedIds :
          CreateSessionCall(id, p, g)
    \/ \E id \in StoreIds, g \in GeneratedIds : EnsureSessionCall(id, EmptyProfile, g)
    \/ \E id \in StoreIds, u \in StoreUpdates, g \in GeneratedIds :
          UpdateUserProfileCall(id, u, g)
    \/ \E id \in StoreIds, m \in StoreMessages, g \in GeneratedIds :
          AppendHistoryCall(id, m, g)
    \/ \E id \in GeneratedIds : DeleteSessionCall(id)

SpecStore == InitServer /\ [][NextStore]_vars

NotCalled == [threw |-> FALSE, value |-> [kind |-> "none"]]

InitATS ==
    /\ atsPc = "start"
    /\ resumeText \in Texts \cup BadTexts
    /\ analysis \in Analyses
    /\ atsArg = Undefined
    /\ ats = NotCalled
    /\ summary = NotCalled
    /\ improvements = NotCalled
    /\ sectionLastIndex = [section \in Range(SectionKeys) |-> 0]
    /\ scoredBefore = <<>>
    /\ ServerIdle

\* const ats = scoreResume(text, skillsResult.data)
ScoreCall(text, skillsData) ==
    /\ ats' = scoreResume(text, skillsData)
    /\ sectionLastIndex' = SectionLastIndexAfter(text)
    /\ scoredBefore' =
          IF <<text, skillsData>> \in DOMAIN scoredBefore
          THEN [scoredBefore EXCEPT ![<<text, skillsData>>].again = TRUE]
          ELSE (<<text, skillsData>> :> [first |-> ats', again |-> FALSE]) @@ scoredBefore
    /\ resumeText' = text
    /\ analysis' = skillsData
    /\ atsPc' = "scored"
    /\ UNCHANGED <<atsArg, summary, improvements, serverVars, appVars>>

ScoreResume ==
    /\ atsPc = "start"
    /\ ScoreCall(resumeText, analysis)

\* generateResumeSummary(analysis, ats) and summarizeImprovements(ats), with the
\* value scoreResume returned or with a degenerate ats argument.
Summarise ==
    /\ atsPc = "scored"
    /\ \E t \in {Undefined, Null, EmptyObject} \cup
                (IF ats.threw THEN {} ELSE {ats.value}) :
          /\ atsArg' = t
          /\ summary' = generateResumeSummary(analysis, t)
          /\ improvements' = summarizeImprovements(t)
    /\ atsPc' = "summarised"
    /\ UNCHANGED <<resumeText, analysis, ats, sectionLastIndex, scoredBefore, serverVars, appVars>>

NextATS == ScoreResume \/ Summarise

SpecATS == InitATS /\ [][NextATS]_vars

(***************************************************************************)
(* SpecTurns: two send-message requests, "a" and "b", on session s1, which *)
(* may or may not be in the Map when they arrive                           *)
(***************************************************************************)
TurnsHistory == 4

TurnMessages ==
    {[sessionId |-> "s1", message |-> m, userProfile |-> [skills |-> <<m>>]] :
        m \in {"a", "b"}}

\* the assistant's answer to a message, told apart by the message it answers
AnswerTo(message) ==
    [message |-> "re:" \o message, data |-> [topic |-> message], suggestions |-> <<>>]

\* the client sends a request again only after it was answered
NotInFlight(req) == \A r \in inflight : r.req # req

NextTurns ==
    \/ \E req \in SessionRequests : CreateChatSession(req, "s1")
    \/ \E req \in TurnMessages :
          NotInFlight(req) /\ MessageStartWithin(req, "s1", TurnsHistory)
    \/ \E r \in inflight : MessageFinish(r, TRUE, Refused, Null)
    \/ \E r \in inflight : MessageFinish(r, FALSE, Refused, AnswerTo(r.req.message))

SpecTurns == InitServer /\ [][NextTurns]_vars

(***************************************************************************)
(* SpecTalk: messages "a" to session s1 and messages that name no session  *)
(***************************************************************************)
TalkMessages ==
    {[sessionId |-> "s1", message |-> "a", userProfile |-> [skills |-> <<"a">>]],
     [sessionId |-> NoId, message |-> "a", userProfile |-> EmptyProfile]}

NextTalk ==
    \/ \E req \in SessionRequests : CreateChatSession(req, "s1")
    \/ \E req \in TalkMessages :
          NotInFlight(req) /\ MessageStartWithin(req, "s2", TurnsHistory)
    \/ \E r \in inflight : MessageFinish(r, TRUE, Refused, Null)
    \/ \E r \in inflight : MessageFinish(r, FALSE, Refused, AnswerTo(r.req.message))

SpecTalk == InitServer /\ [][NextTalk]_vars

(***************************************************************************)
(* SpecPlan: roadmap requests with a target role, for a session that has a *)
(* history, for an unknown session and for none                            *)
(***************************************************************************)
PlanRequests ==
    {[sessionId |-> sid, targetRole |-> "Dev", currentSkills |-> <<"Python">>,
      timeline |-> "3 months"] : sid \in {"s1", "s2", NoId}}

NextPlan ==
    \/ \E req \in SessionRequests : CreateChatSession(req, "s1")
    \/ \E req \in ProfileMessages : MessageStart(req, "s1")
    \/ \E r \in inflight : MessageFinish(r, FALSE, Refused, AnswerTo(r.req.message))
    \/ \E req \in PlanRequests : RoadmapStart(req)
    \/ \E r \in inflight, e \in ChatFailures : RoadmapFinish(r, TRUE, e, Null)
    \/ \E r \in inflight, roadmap \in Roadmaps : RoadmapFinish(r, FALSE, Refused, roadmap)
    \/ DeleteChatSession("s1")

SpecPlan == InitServer /\ [][NextPlan]_vars

(***************************************************************************)
(* SpecApp: the browser application.  App holds the view and the current   *)
(* roadmap; Chatbot is rendered in the chat view only, so leaving that     *)
(* view discards its state and coming back mounts a new one.  What the     *)
(* backend answers is an input.                                            *)
(***************************************************************************)
MaxMessages == 5

\* Chatbot as mounted: useState('') for sessionId, useState([]) for messages,
\* useState(false) for isLoading, and createSession() called by the effect
NewChatbot ==
    [sessionId |-> "", messages |-> <<>>, isLoading |-> FALSE,
     creating |-> TRUE, pending |-> 0, carried |-> <<>>]

Greeting == [role |-> "assistant", content |-> "greeting", data |-> Null]

\* !!value of the roadmap state
Truthy(value) == ~ReadThrows(value)

\* App.handleRoadmapGenerated; App hands it to Chatbot as onRoadmapGenerated,
\* and Chatbot never calls it
handleRoadmapGenerated(generatedRoadmap) ==
    /\ currentRoadmap' = generatedRoadmap
    /\ view' = "roadmap"
    /\ chatbot' = NewChatbot
    /\ UNCHANGED <<pageVars, atsVars, serverVars>>

\* the navigation buttons: the third is rendered only while roadmap is truthy
ShowView(v) ==
    /\ v = "roadmap" => Truthy(currentRoadmap)
    /\ view' = v
    /\ chatbot' = IF v = "chat" /\ view = "chat" THEN chatbot ELSE NewChatbot
    /\ UNCHANGED <<currentRoadmap, pageVars, atsVars, serverVars>>

\* Chatbot.createSession after POST /chat/session answered success
SessionCreated(sessionId) ==
    /\ view = "chat"
    /\ chatbot.creating
    /\ chatbot' = [chatbot EXCEPT !.sessionId = sessionId, !.messages = <<Greeting>>,
                                  !.creating = FALSE]
    /\ UNCHANGED <<view, currentRoadmap, pageVars, atsVars, serverVars>>

\* Chatbot.createSession when POST /chat/session fails: the catch block logs
SessionFailed ==
    /\ view = "chat"
    /\ chatbot.creating
    /\ chatbot' = [chatbot EXCEPT !.creating = FALSE]
    /\ UNCHANGED <<view, currentRoadmap, pageVars, atsVars, serverVars>>

\* the request body of POST /chat/message: sessionId is the state as it is
\* when sendMessage is called
MessageBody(messageText) == [sessionId |-> chatbot.sessionId, message |-> messageText]

\* sendMessage without its test of isLoading
SendMessageWhileLoading(messageText) ==
    /\ view = "chat"
    /\ ~Blank(messageText)
    /\ Len(chatbot.messages) + 2 <= MaxMessages
    /\ chatbot' =
          [chatbot EXCEPT
              !.messages = Append(@, [role |-> "user", content |-> messageText,
                                      data |-> Null]),
              !.isLoading = TRUE,
              !.pending = @ + 1,
              !.carried = Append(@, MessageBody(messageText).sessionId)]
    /\ UNCHANGED <<view, currentRoadmap, pageVars, atsVars, serverVars>>

\* Chatbot.sendMessage up to the awaited POST /chat/message
SendMessage(messageText) ==
    /\ view = "chat"
    /\ ~Blank(messageText)
    /\ ~chatbot.isLoading
    /\ Len(chatbot.messages) + 2 <= MaxMessages
    /\ chatbot' =
          [chatbot EXCEPT
              !.messages = Append(@, [role |-> "user", content |-> messageText,
                                      data |-> Null]),
              !.isLoading = TRUE,
              !.pending = @ + 1,
              !.carried = Append(@, MessageBody(messageText).sessionId)]
    /\ UNCHANGED <<view, currentRoadmap, pageVars, atsVars, serverVars>>

\* error.response?.data?.message || error.message
ErrorText(error) ==
    IF error.response /\ error.detail # "" THEN error.detail ELSE error.message

\* Chatbot.sendMessage after the awaited call: the response (always success
\* with 200, chat.js:65) with the assistant's message and its data, or the
\* error axios raised for a non-2xx answer or a transport failure
MessageAnswered(failed, reply) ==
    /\ view = "chat"
    /\ chatbot.pending > 0
    /\ chatbot' =
          [chatbot EXCEPT
              !.messages =
                  Append(@, IF failed
                            THEN [role |-> "assistant",
                                  content |-> "Sorry, I encountered an error: "
                                              \o ErrorText(reply) \o ". Please try again.",
                                  data |-> Null]
                            ELSE [role |-> "assistant", content |-> reply.message,
                                  data |-> reply.data]),
              !.isLoading = FALSE,
              !.pending = @ - 1]
    /\ UNCHANGED <<view, currentRoadmap, pageVars, atsVars, serverVars>>

\* what a failed POST /chat/message raises in the browser: an answer of the
\* error handler, or no answer at all
SendFailures ==
    {[response |-> TRUE, detail |-> "AI Career Coach service is not available.",
      message |-> "Request failed with status code 500"],
     [response |-> FALSE, detail |-> "", message |-> "Network Error"]}

\* what the assistant answers: a plain message, or one carrying a roadmap
AssistantReplies ==
    {[message |-> "ok", data |-> Null, suggestions |-> <<>>]}
    \cup {[message |-> "roadmap", data |-> r, suggestions |-> <<>>] : r \in Roadmaps}

NextApp ==
    \/ \E v \in {"chat", "upload", "roadmap"} : ShowView(v)
    \/ \E sessionId \in SessionIds : SessionCreated(sessionId)
    \/ SessionFailed
    \/ \E messageText \in {"", "a", "b"} : SendMessage(messageText)
    \/ \E reply \in AssistantReplies : MessageAnswered(FALSE, reply)
    \/ \E error \in SendFailures : MessageAnswered(TRUE, error)

SpecApp == InitServer /\ [][NextApp]_vars

(***************************************************************************)
(* SpecSummary: generateResumeSummary for skill and category names of any  *)
(* length                                                                  *)
(***************************************************************************)
RECURSIVE Repeat(_, _)
Repeat(str, n) == IF n = 0 THEN "" ELSE str \o Repeat(str, n - 1)

\* n skills and c categories, every name w characters long
WideAnalysis(n, c, w) ==
    [kind |-> "object", has |-> {"skills", "categories"},
     skills |-> [i \in 1..n |-> Repeat("k", w)],
     categories |-> [i \in 1..c |-> Repeat("c", w)]]

NameWidths == 1..60

SummaryAnalyses ==
    {WideAnalysis(n, c, w) : n \in {0, 1, 4, 7}, c \in {0, 3}, w \in NameWidths}

SummaryTexts == {PitchText, StringOf([NoLines EXCEPT !["verb"] = 6])}

InitSummary ==
    /\ atsPc = "scored"
    /\ resumeText \in SummaryTexts
    /\ analysis \in SummaryAnalyses
    /\ sectionLastIndex = [section \in Range(SectionKeys) |-> 0]
    /\ ats = scoreResume(resumeText, analysis)
    /\ scoredBefore = <<>>
    /\ atsArg = Undefined
    /\ summary = NotCalled
    /\ improvements = NotCalled
    /\ ServerIdle

SpecSummary == InitSummary /\ [][Summarise]_vars

(***************************************************************************)
(* SpecScore: scoreResume called again and again in one process            *)
(***************************************************************************)
ScoreTexts ==
    {PitchText,
     StringOf([NoLines EXCEPT !["hContact"] = 2, !["hSkills"] = 1, !["bullet"] = 1])}

ScoreAnalyses == {EmptyObject, AnalysisOf(3, 2, 90)}

NextScore == \E text \in ScoreTexts, skillsData \in ScoreAnalyses : ScoreCall(text, skillsData)

SpecScore == InitServer /\ [][NextScore]_vars

(***************************************************************************)
(* SpecErrors: errorHandler called with failures of every kind             *)
(***************************************************************************)
\* err.name
ErrorNames == {"Error", "TypeError", "ValidationError", "CastError", "MulterError"}

\* err.message: none, each key word alone, several at once, and key words in
\* another case
ErrorMessages ==
    {"", "boom", "Unexpected end of form", "Missing boundary",
     "not found", "does not exist", "unauthorized", "not authorized",
     "forbidden", "access denied", "validation", "invalid", "timeout", "timed out",
     "Not Found", "Invalid", "Timeout",
     "invalid: timed out", "timeout: not found", "forbidden: unauthorized",
     "access denied: invalid", "Missing boundary not found",
     "Unexpected end of form: timeout", "validation timed out: does not exist"}

Errors == {[name |-> n, message |-> m] : n \in ErrorNames, m \in ErrorMessages}

\* next(err) reaching the handler: res.status(statusCode).json({...})
HandleError(err) ==
    /\ lastResponse' = Respond("errorHandler", err, errorHandler(err), 0, FALSE)
    /\ UNCHANGED <<chatSessions, heap, storeSessions, inflight, everCreated,
                   atsVars, appVars>>

NextErrors == \E err \in Errors : HandleError(err)

SpecErrors == InitServer /\ [][NextErrors]_vars

(***************************************************************************)
(* SpecOutage: one request of each route that calls the AI service, while  *)
(* the service answers, refuses connections or times out.                  *)
(* Every outbound call is made with axios' timeout option, so each call    *)
(* settles: FairOutage lets no suspended request wait for ever.            *)
(***************************************************************************)
OutageRequests ==
    {[op |-> "upload", req |-> [sessionId |-> NoId, form |-> "ok", file |-> GoodPdf]],
     [op |-> "analyze-text", req |-> [text |-> PitchText]],
     [op |-> "message",
      req |-> [sessionId |-> NoId, message |-> "a", userProfile |-> EmptyProfile]],
     [op |-> "roadmap",
      req |-> [sessionId |-> NoId, targetRole |-> "Dev", currentSkills |-> <<"Python">>,
               timeline |-> "3 months"]]}

\* the request q is suspended at its AI-service call
Suspended(q) == \E r \in inflight : r.op = q.op /\ r.req = q.req

\* the request q arrives
Arrives(q) ==
    /\ ~Suspended(q)
    /\ CASE q.op = "upload" -> UploadStart(q.req)
         [] q.op = "analyze-text" -> AnalyzeStart(q.req)
         [] q.op = "message" -> MessageStart(q.req, "s1")
         [] q.op = "roadmap" -> RoadmapStart(q.req)

\* the AI-service call of r fails with e
CallFails(r, e) ==
    \/ UploadFinish(r, TRUE, e, Null)
    \/ AnalyzeFinish(r, TRUE, e, Null)
    \/ MessageFinish(r, TRUE, e, Null)
    \/ RoadmapFinish(r, TRUE, e, Null)

\* the AI-service call of r is answered
CallAnswered(r) ==
    \/ UploadFinish(r, FALSE, Refused, Extracted(<<"Python">>))
    \/ AnalyzeFinish(r, FALSE, Refused, Extracted(<<"Python">>))
    \/ MessageFinish(r, FALSE, Refused, AnswerTo(r.req.message))
    \/ \E roadmap \in Roadmaps : RoadmapFinish(r, FALSE, Refused, roadmap)

\* the AI-service call of request q settles
Settles(q) ==
    \E r \in inflight :
        /\ r.op = q.op /\ r.req = q.req
        /\ \/ \E e \in ChatFailures : CallFails(r, e)
           \/ CallAnswered(r)

NextOutage ==
    \/ \E q \in OutageRequests : Arrives(q)
    \/ \E q \in OutageRequests : Settles(q)

SpecOutage == InitServer /\ [][NextOutage]_vars

FairOutage == SpecOutage /\ \A q \in OutageRequests : WF_vars(Settles(q))

(***************************************************************************)
(* SpecStatus: the SystemStatus widget (SystemStatus.tsx), mounted by App  *)
(* above every view beside the Chatbot, both calling the backend when the  *)
(* page loads.  systemStatus.outcome remembers how the last check ended.   *)
(***************************************************************************)
\* what the widget renders: the spinner, the green banner or the red one
Banner(s) ==
    IF s.isLoading THEN "loading"
    ELSE IF ~Falsy(s.healthStatus) /\ s.healthStatus.isHealthy THEN "healthy"
    ELSE "unhealthy"

\* apiService.checkAiStatus answered 2xx: if (response.success)
\* setHealthStatus(response.data); finally setIsLoading(false)
HealthAnswered(response) ==
    /\ systemStatus.isLoading
    /\ systemStatus' =
          [healthStatus |-> IF response.success THEN response.data
                            ELSE systemStatus.healthStatus,
           isLoading |-> FALSE,
           outcome |-> [kind |-> "answered", response |-> response]]
    /\ UNCHANGED <<view, currentRoadmap, chatbot, resumePage, atsVars, serverVars>>

\* apiService.checkAiStatus threw (a non-2xx answer, no answer within the 30
\* seconds of the client, no connection): the catch block logs; finally
\* setIsLoading(false)
HealthFailed(error) ==
    /\ systemStatus.isLoading
    /\ systemStatus' =
          [systemStatus EXCEPT !.isLoading = FALSE,
                               !.outcome = [kind |-> "failed", error |-> error]]
    /\ UNCHANGED <<view, currentRoadmap, chatbot, resumePage, atsVars, serverVars>>

\* the Refresh button, rendered once the spinner is gone: checkSystemHealth
\* up to its awaited call
RefreshStatus ==
    /\ ~systemStatus.isLoading
    /\ systemStatus' = [systemStatus EXCEPT !.isLoading = TRUE]
    /\ UNCHANGED <<view, currentRoadmap, chatbot, resumePage, atsVars, serverVars>>

\* the answers of GET /resume/ai-status with status 200
HealthResponses ==
    {[success |-> TRUE,
      data |-> [kind |-> "object", isHealthy |-> TRUE, timestamp |-> Timestamp,
                status |-> [service |-> "ai", version |-> v]]] : v \in {"1.0", "1.1"}}
    \cup {[success |-> TRUE,
           data |-> [kind |-> "object", isHealthy |-> FALSE, status |-> Null,
                     timestamp |-> Timestamp]]}

\* what a failed check raises in the browser: an answer of errorHandler to a
\* failed getStatus, or no answer
HealthFailures ==
    {[response |-> TRUE, detail |-> errorHandler(getStatusError(e)).message,
      message |-> "Request failed with status code "
                  \o ToString(errorHandler(getStatusError(e)).status)] :
        e \in {Refused, TimedOut, Reset}}
    \cup {[response |-> FALSE, detail |-> "", message |-> m] :
            m \in {"Network Error", "timeout of 30000ms exceeded"}}

NextStatus ==
    \/ \E response \in HealthResponses : HealthAnswered(response)
    \/ \E error \in HealthFailures : HealthFailed(error)
    \/ RefreshStatus
    \/ \E v \in {"chat", "upload"} : ShowView(v)
    \/ \E sessionId \in SessionIds : SessionCreated(sessionId)
    \/ SessionFailed

SpecStatus == InitServer /\ [][NextStatus]_vars

(***************************************************************************)
(* SpecResume: the resume analysis view of App (App.tsx) under the         *)
(* SystemStatus widget.  In resumePage, closureAts is the ats that the     *)
(* running handleFileUpload closed over and earlierAts remembers the ATS   *)
(* result of the last successful upload.                                   *)
(***************************************************************************)
\* <FileUpload> is rendered: view === 'upload' && !analysisResult && !isLoading
\* && !error
FileUploadShown ==
    /\ view = "upload"
    /\ Falsy(resumePage.analysisResult)
    /\ ~resumePage.isLoading
    /\ Falsy(resumePage.error)

\* a button that calls handleRetry is rendered: on <ErrorMessage>, or under
\* the results
RetryShown ==
    /\ view = "upload"
    /\ ~Falsy(resumePage.error) \/ ~Falsy(resumePage.analysisResult)

\* the score-delta badge: {prevAts && ...} inside {ats && ...}, with
\* Math.round(ats.score - prevAts.score)
DeltaBadge(page) ==
    IF ~Falsy(page.analysisResult) /\ ~Falsy(page.ats) /\ ~Falsy(page.prevAts)
    THEN [shown |-> TRUE, delta |-> page.ats.score - page.prevAts.score]
    ELSE [shown |-> FALSE, delta |-> 0]

\* handleFileUpload up to its awaited apiService.uploadResume
FileSelected ==
    /\ FileUploadShown
    /\ resumePage' = [resumePage EXCEPT !.isLoading = TRUE, !.error = Null,
                                        !.analysisResult = Null,
                                        !.closureAts = resumePage.ats]
    /\ UNCHANGED <<view, currentRoadmap, chatbot, systemStatus, atsVars, serverVars>>

\* handleFileUpload after the call answered 200: setPrevAts(prev => (ats ? ats
\* : prev)) with the ats of the closure, then the new result and
\* setView('upload')
ResumeAnalyzed(data) ==
    /\ resumePage.isLoading
    /\ resumePage' =
          [resumePage EXCEPT
              !.prevAts = IF ~Falsy(resumePage.closureAts) THEN resumePage.closureAts
                          ELSE @,
              !.analysisResult = data.analysis,
              !.ats = data.ats,
              !.isLoading = FALSE,
              !.earlierAts = data.ats]
    /\ view' = "upload"
    /\ chatbot' = NewChatbot
    /\ UNCHANGED <<currentRoadmap, systemStatus, atsVars, serverVars>>

\* handleFileUpload after the call failed: setError(...)
ResumeFailed(error) ==
    /\ resumePage.isLoading
    /\ resumePage' = [resumePage EXCEPT !.error = [kind |-> "text", text |-> ErrorText(error)],
                                        !.isLoading = FALSE]
    /\ UNCHANGED <<view, currentRoadmap, chatbot, systemStatus, atsVars, serverVars>>

\* handleRetry: clears the error and the current result, keeps prevAts
handleRetry ==
    /\ RetryShown
    /\ resumePage' = [resumePage EXCEPT !.error = Null, !.analysisResult = Null,
                                        !.ats = Null]
    /\ UNCHANGED <<view, currentRoadmap, chatbot, systemStatus, atsVars, serverVars>>

\* the ATS scores of the answers
ResumeScores == {40, 55, 80}

ResumeResults ==
    {[analysis |-> Extracted(<<"Python">>), ats |-> [kind |-> "object", score |-> n]] :
        n \in ResumeScores}

ResumeFailures ==
    {[response |-> TRUE, detail |-> "Only PDF files are allowed",
      message |-> "Request failed with status code 400"],
     [response |-> FALSE, detail |-> "", message |-> "Network Error"]}

NextResume ==
    \/ \E v \in {"chat", "upload"} : ShowView(v)
    \/ FileSelected
    \/ \E data \in ResumeResults : ResumeAnalyzed(data)
    \/ \E error \in ResumeFailures : ResumeFailed(error)
    \/ handleRetry
    \/ \E response \in HealthResponses : HealthAnswered(response)
    \/ \E error \in HealthFailures : HealthFailed(error)
    \/ RefreshStatus

SpecResume == InitServer /\ [][NextResume]_vars

(***************************************************************************)
(* SpecDelete: a client that talks to session s1 while it is stored, and   *)
(* deletes it; a message request whose session is gone from the Map was    *)
(* therefore suspended when the session was deleted                        *)
(***************************************************************************)
NextDelete ==
    \/ \E req \in SessionRequests : CreateChatSession(req, "s1")
    \/ \E req \in TurnMessages :
          /\ req.sessionId \in DOMAIN chatSessions
          /\ NotInFlight(req)
          /\ MessageStartWithin(req, "s1", TurnsHistory)
    \/ \E r \in inflight : MessageFinish(r, TRUE, Refused, Null)
    \/ \E r \in inflight : MessageFinish(r, FALSE, Refused, AnswerTo(r.req.message))
    \/ GetHistory("s1")
    \/ DeleteChatSession("s1")

SpecDelete == InitServer /\ [][NextDelete]_vars

(***************************************************************************)
(* Concurrent uploads: several POST /upload requests, with and without the *)
(* id of one session, are suspended in extractSkills at the same time and  *)
(* their AI calls return in any order.                                     *)
(***************************************************************************)
UploadNames == {"a.pdf", "b.pdf"}

ConcurrentUploads ==
    {[sessionId |-> sid, form |-> "ok", file |-> [GoodPdf EXCEPT !.originalname = n]] :
        sid \in {"s1", NoId}, n \in UploadNames}

NextConcurrent ==
    \/ \E req \in ConcurrentUploads : UploadStart(req)
    \/ \E r \in inflight, e \in ChatFailures : UploadFinish(r, TRUE, e, Null)
    \/ \E r \in inflight, body \in ExtractBodies : UploadFinish(r, FALSE, Refused, body)

SpecConcurrent == InitServer /\ [][NextConcurrent]_vars

(***************************************************************************)
(* Properties of the ATS scorer, checked under SpecATS                     *)
(***************************************************************************)
\* the text is one scoreResume scores: a non-empty string
ValidText(text) == text.kind = "string" /\ ~Falsy(text)

\* the text holds an email address / a phone number
TextHasEmail(text) == \E k \in LineKinds : text.lines[k] > 0 /\ LineAttr(k).email
TextHasPhone(text) == \E k \in LineKinds : text.lines[k] > 0 /\ LineAttr(k).phone

\* C4: whenever scoreResume has scored a valid text that lacks an email or a
\* phone number, the suggestions it returned include the email/phone reminder;
\* and for the one-line text of the analyze-text scenario breakdown.contact is 0.
C4_ReminderWheneverContactMissing ==
    (/\ atsPc # "start"
     /\ ~ats.threw
     /\ ValidText(resumeText)
     /\ ~TextHasEmail(resumeText) \/ ~TextHasPhone(resumeText))
    => /\ ContactReminder \in Range(ats.value.suggestions)
       /\ resumeText = PitchText => ats.value.breakdown["contact"] = 0

\* C5: every sub-score scoreResume returned is within its cap, the six
\* sub-scores add up to the returned score, and the score lies in 0..100; for a
\* missing or non-string text the score is 0 and the breakdown is empty.
C5_SubScoresWithinCapsAndSumToScore ==
    (atsPc # "start" /\ ~ats.threw)
    => IF ValidText(resumeText)
       THEN LET b == ats.value.breakdown IN
            /\ DOMAIN b = BreakdownKeys
            /\ b["sections"] \in 0..35
            /\ b["keywords"] \in 0..30
            /\ b["formatting"] \in 0..20
            /\ b["impact"] \in 0..10
            /\ b["quantification"] \in 0..5
            /\ b["contact"] \in 0..5
            /\ ats.value.score \in 0..100
            /\ b["sections"] + b["keywords"] + b["formatting"] + b["impact"]
                  + b["quantification"] + b["contact"] = ats.value.score
       ELSE /\ ats.value.score = 0
            /\ DOMAIN ats.value.breakdown = {}

\* C6: none of scoreResume, generateResumeSummary and summarizeImprovements
\* ever throws, whatever text, analysis and ats they are called with.
C6_ScorerNeverThrows ==
    /\ ~ats.threw
    /\ ~summary.threw
    /\ ~improvements.threw

(***************************************************************************)
(* Properties of POST /resume/upload, checked under SpecUpload             *)
(***************************************************************************)
\* case-insensitive de-duplication that keeps each skill where and as it was
\* first seen
RECURSIVE FirstSeen(_, _)
FirstSeen(entries, seen) ==
    IF entries = <<>> THEN <<>>
    ELSE LET key == ToLowerCase(Head(entries)) IN
         IF key \in seen THEN FirstSeen(Tail(entries), seen)
         ELSE <<Head(entries)>> \o FirstSeen(Tail(entries), seen \cup {key})

\* C2: when an upload that names a session is answered 200, the skills of that
\* session's profile are the skills it had followed by the extracted ones,
\* de-duplicated case-insensitively, each in the place and the casing of its
\* first occurrence.
C2_MergeKeepsFirstSeenCasing ==
    [][\A r \in inflight \ inflight' :
          (r.op = "upload" /\ r.req.sessionId # NoId /\ lastResponse'.status = 200)
          => LET sid == r.req.sessionId
                 before == IF sid \in DOMAIN storeSessions
                           THEN CurrentSkills(storeSessions[sid]) ELSE <<>>
             IN  storeSessions'[sid].userProfile["skills"] =
                    FirstSeen(before \o ExtractedSkills(lastResponse'.data.analysis), {})]_vars

\* the message with which an upload is to be turned away, "" for one to accept
ExpectedRejection(req) ==
    LET f == req.file IN
    IF ~f.attached THEN "No file uploaded. Please upload a PDF resume."
    ELSE IF f.mimetype # "application/pdf"
    THEN "Invalid file type. Please upload a PDF file."
    ELSE IF f.size > 5 * 1024 * 1024 THEN "File too large. Maximum size is 5MB."
    ELSE IF ~f.bufferOk THEN "Uploaded file buffer is invalid. Please try again."
    ELSE IF f.pdf = Null
    THEN "Failed to parse PDF file. Please ensure it's a valid PDF document."
    ELSE IF f.pdf.kind # "string" \/ TrimLength(f.pdf) < 50
    THEN "Insufficient text content in resume. Please upload a resume with more detailed content."
    ELSE ""

\* an upload to turn away got its 400 and its message without a call of
\* extractSkills, and without parsing when the type or the size is wrong
TurnedAway(resp) ==
    (resp.op = "upload" /\ resp.req.form = "ok" /\ ExpectedRejection(resp.req) # "")
    => /\ resp.status = 400
       /\ resp.message = ExpectedRejection(resp.req)
       /\ resp.calls = 0
       /\ (resp.req.file.attached
             /\ (resp.req.file.mimetype # "application/pdf"
                   \/ resp.req.file.size > 5 * 1024 * 1024)) => ~resp.parsed

\* no upload that is to be turned away is suspended at extractSkills
NoneToTurnAwayInFlight(requests) ==
    \A r \in requests :
        r.op = "upload" => r.req.form = "ok" /\ ExpectedRejection(r.req) = ""

C3_AiStatusAlways200 ==
    lastResponse.op = "ai-status"
    => /\ lastResponse.status = 200
       /\ lastResponse.success
       /\ DOMAIN lastResponse.data = {"isHealthy", "status", "timestamp"}

\* the text is absent, no string, or trims to fewer than 10 characters
Unusable(text) == text.kind # "string" \/ TrimLength(text) < 10

\* C9: a text that is absent, not a string or shorter than 10 trimmed
\* characters is never sent to the AI service: POST /resume/analyze-text
\* answers it 400 with the minimum-10-characters message, extractSkills fails
\* it as invalid or insufficient text, and neither has a request in flight.
C9_UnusableTextNeverSent ==
    /\ \A r \in inflight :
          /\ r.op = "analyze-text" => ~Unusable(r.req.text)
          /\ r.op = "extractSkills" => ~Unusable(r.req)
    /\ (lastResponse.op = "analyze-text" /\ Unusable(lastResponse.req.text))
       => /\ lastResponse.status = 400
          /\ lastResponse.message =
                "Please provide valid text content for analysis (minimum 10 characters)."
          /\ lastResponse.calls = 0
    /\ (lastResponse.op = "extractSkills" /\ Unusable(lastResponse.req))
       => /\ ~lastResponse.success
          /\ Includes(lastResponse.message,
                "Invalid or insufficient text provided for skill extraction")
          /\ lastResponse.calls = 0

\* a six-character text was answered 400 while other requests wait for the AI
\* service
C9_ShortTextRejected ==
    /\ lastResponse.op = "analyze-text"
    /\ lastResponse.req.text = ShortText
    /\ lastResponse.status = 400
    /\ inflight # {}

(***************************************************************************)
(* Properties of the chat routes, checked under SpecChat, SpecRoadmap and  *)
(* SpecProfile                                                             *)
(***************************************************************************)
\* C1: the resume routes and the chat routes work on one session record per
\* id: GET /chat/history/:id of a session a resume was uploaded under answers
\* 200 with the profile the upload stored (merged skills and resume record),
\* also when the upload created the session; and POST /chat/message on such a
\* session forwards that profile to the AI service.
C1_OneSessionRecordPerId ==
    [][/\ (lastResponse'.op = "history" /\ lastResponse'.req.sessionId \in DOMAIN storeSessions')
          => /\ lastResponse'.status = 200
             /\ lastResponse'.data.userProfile =
                   storeSessions'[lastResponse'.req.sessionId].userProfile
       /\ \A r \in inflight' \ inflight :
             (r.op = "message" /\ r.req.sessionId \in DOMAIN storeSessions)
             => r.sent.userProfile = storeSessions[r.req.sessionId].userProfile]_vars

\* C7: GET /chat/history/:id and DELETE /chat/session/:id answer 404 'Session
\* not found' when no session is stored under the id (it was never created,
\* or it was deleted) and 200 when one is; a DELETE leaves no session under
\* the id and touches no other; a DELETE that follows a DELETE of the same id
\* answered 200 is answered 404.
C7_MissingSessionIs404 ==
    [][(lastResponse' # lastResponse /\ lastResponse'.op \in {"history", "delete"})
       => LET resp == lastResponse'
              id == lastResponse'.req.sessionId
          IN  /\ id \notin DOMAIN chatSessions
                 => resp.status = 404 /\ resp.message = "Session not found"
              /\ id \in DOMAIN chatSessions => resp.status = 200
              /\ id \notin everCreated => resp.status = 404
              /\ resp.op = "history" => chatSessions' = chatSessions
              /\ resp.op = "delete"
                 => /\ DOMAIN chatSessions' = (DOMAIN chatSessions) \ {id}
                    /\ \A other \in DOMAIN chatSessions' :
                          chatSessions'[other] = chatSessions[other]
              /\ (/\ resp.op = "delete"
                  /\ lastResponse.op = "delete"
                  /\ lastResponse.req.sessionId = id
                  /\ lastResponse.status = 200) => resp.status = 404]_vars

\* a session that was stored and deleted is asked for again and not found,
\* while another session is stored
C7_DeletedSessionNotFound ==
    /\ lastResponse.op \in {"history", "delete"}
    /\ lastResponse.status = 404
    /\ lastResponse.req.sessionId \in everCreated
    /\ chatSessions # <<>>

\* C10: POST /chat/roadmap without targetRole is answered 400 'Target role is
\* required' whatever else it carries, sends nothing to the AI service and
\* changes no session.
C10_RoadmapNeedsTargetRole ==
    [][/\ \A r \in inflight' : r.op = "roadmap" => r.req.targetRole # ""
       /\ (lastResponse'.op = "roadmap" /\ lastResponse'.req.targetRole = "")
          => /\ lastResponse'.status = 400
             /\ lastResponse'.message = "Target role is required"
             /\ lastResponse'.calls = 0
             /\ UNCHANGED <<chatSessions, heap, storeSessions>>]_vars

\* a roadmap without targetRole that names a stored session and carries skills
\* and a timeline was answered 400
C10_RoadmapWithoutRoleRejected ==
    /\ lastResponse.op = "roadmap"
    /\ lastResponse.status = 400
    /\ lastResponse.req.sessionId \in DOMAIN chatSessions
    /\ lastResponse.req.currentSkills # <<>>
    /\ lastResponse.req.timeline # ""

(***************************************************************************)
(* Properties of the session store, checked under SpecStore                *)
(***************************************************************************)
CreatedWithoutId(resp) == resp.op = "createSession" /\ resp.req.id = NoId

\* C11: createSession called with no identifier always returns a session whose
\* identifier differs from every identifier already in the store, so that no
\* creation overwrites an existing session.
C11_GeneratedIdAlwaysNew ==
    [][CreatedWithoutId(lastResponse') =>
          /\ lastResponse'.id \notin DOMAIN storeSessions
          /\ \A k \in DOMAIN storeSessions : storeSessions'[k] = storeSessions[k]]_vars

EnsuredWithId(resp) == resp.op = "ensureSession" /\ resp.req.id # NoId

\* C12: ensureSession is idempotent for a given identifier.  Called with an
\* unknown id it stores one fresh session under that id; called with a known id
\* (in particular a second time in a row with the same id) it creates and
\* replaces nothing and returns the stored session, history and profile intact.
C12_EnsureSessionIdempotent ==
    [][EnsuredWithId(lastResponse') =>
          LET id == lastResponse'.req.id
          IN  /\ lastResponse'.id = id
              /\ id \in DOMAIN storeSessions => storeSessions' = storeSessions
              /\ id \notin DOMAIN storeSessions =>
                     storeSessions' =
                        (id :> NewSession(id, lastResponse'.req.arg)) @@ storeSessions
              /\ (EnsuredWithId(lastResponse) /\ lastResponse.req.id = id) =>
                     /\ storeSessions' = storeSessions
                     /\ lastResponse'.id = lastResponse.id]_vars

\* ensureSession returned a session that has a history and a profile to lose
C12_EnsuredSessionWithHistory ==
    /\ EnsuredWithId(lastResponse)
    /\ lastResponse.id \in DOMAIN storeSessions
    /\ storeSessions[lastResponse.id].history # <<>>
    /\ "skills" \in DOMAIN storeSessions[lastResponse.id].userProfile

UpdatedWithId(resp) == resp.op = "updateUserProfile" /\ resp.req.id # NoId

\* C13: updateUserProfile(id, updates) changes only the profile keys named in
\* updates: the other profile fields, the session's history, id and createdAt,
\* and every other session in the store are left unchanged.
C13_UpdateTouchesOnlyNamedKeys ==
    [][UpdatedWithId(lastResponse') =>
          LET id == lastResponse'.req.id
              updates == lastResponse'.req.arg
              before == IF id \in DOMAIN storeSessions THEN storeSessions[id]
                        ELSE NewSession(id, EmptyProfile)
              after == storeSessions'[id]
          IN  /\ lastResponse'.id = id
              /\ DOMAIN storeSessions' = (DOMAIN storeSessions) \cup {id}
              /\ \A k \in (DOMAIN storeSessions) \ {id} :
                     storeSessions'[k] = storeSessions[k]
              /\ after.id = before.id
              /\ after.history = before.history
              /\ after.createdAt = before.createdAt
              /\ DOMAIN after.userProfile =
                     (DOMAIN before.userProfile) \cup (DOMAIN updates)
              /\ \A f \in DOMAIN updates : after.userProfile[f] = updates[f]
              /\ \A f \in (DOMAIN before.userProfile) \ (DOMAIN updates) :
                     after.userProfile[f] = before.userProfile[f]]_vars

\* the skills of a session with a target role and a history were updated while
\* another session was in the store
C13_SkillsUpdatedBesideTargetRole ==
    /\ UpdatedWithId(lastResponse)
    /\ DOMAIN lastResponse.req.arg = {"skills"}
    /\ Cardinality(DOMAIN storeSessions) = 2
    /\ lastResponse.id \in DOMAIN storeSessions
    /\ storeSessions[lastResponse.id].history # <<>>
    /\ "targetRole" \in DOMAIN storeSessions[lastResponse.id].userProfile

(***************************************************************************)
(* Properties of repeated scoring, checked under SpecScore                 *)
(***************************************************************************)
\* C14: scoreResume is deterministic and stateless: a call returns the score,
\* breakdown and suggestions that the first call with the same text and
\* analysis returned, whatever calls were made in between, and leaves the
\* module's expressions as it found them.
C14_ScoreResumeDeterministic ==
    /\ atsPc = "scored" => ats = scoredBefore[<<resumeText, analysis>>].first
    /\ sectionLastIndex = [section \in Range(SectionKeys) |-> 0]

\* a text with headings was scored again after calls with other arguments
C14_ScoredAgainAfterOthers ==
    /\ atsPc = "scored"
    /\ scoredBefore[<<resumeText, analysis>>].again
    /\ \E section \in Range(SectionKeys) : SectionMatches(resumeText.lines, section) > 0
    /\ Cardinality(DOMAIN scoredBefore) >= 3

(***************************************************************************)
(* Properties of the resume summary, checked under SpecSummary             *)
(***************************************************************************)
AssembledNow == AssembledSummary(DefaultArg(analysis), DefaultArg(atsArg))

\* C15: generateResumeSummary never returns more than 320 characters; when the
\* assembled text exceeds 320 characters the result is its first 317
\* characters followed by '...', otherwise the assembled text unchanged.
C15_SummaryAtMost320 ==
    (atsPc = "summarised" /\ ~summary.threw) =>
        /\ Len(summary.value) <= 320
        /\ Len(AssembledNow) > 320 =>
               summary.value = SubSeq(AssembledNow, 1, 317) \o "..."
        /\ Len(AssembledNow) <= 320 => summary.value = AssembledNow

\* a summary one character too long was cut
C15_SummaryCut ==
    /\ atsPc = "summarised"
    /\ ~summary.threw
    /\ Len(AssembledNow) = 321
    /\ Len(summary.value) = 320

(***************************************************************************)
(* Properties of the browser application, checked under SpecApp            *)
(***************************************************************************)
\* the assistant's message that this step appended to the chat, if any
RoadmapArrives ==
    /\ Len(chatbot'.messages) = Len(chatbot.messages) + 1
    /\ chatbot'.messages[Len(chatbot'.messages)].role = "assistant"
    /\ "phases" \in DOMAIN chatbot'.messages[Len(chatbot'.messages)].data

\* C16: when the assistant generates a roadmap in the chat, the application
\* stores it as the current roadmap and switches to the roadmap view (so that
\* the roadmap navigation entry and the roadmap view become reachable).
C16_GeneratedRoadmapShown ==
    [][RoadmapArrives =>
          /\ currentRoadmap' = chatbot'.messages[Len(chatbot'.messages)].data
          /\ view' = "roadmap"]_vars

(***************************************************************************)
(* Properties of concurrent messages, checked under SpecTurns              *)
(***************************************************************************)
\* the contents of the history stored under s1
StoredContents ==
    IF "s1" \in DOMAIN chatSessions
    THEN [i \in 1..Len(heap[chatSessions["s1"]].history) |->
             heap[chatSessions["s1"]].history[i].content]
    ELSE <<>>

\* the first place of a content in a list of contents
Position(contents, c) == CHOOSE i \in 1..Len(contents) : contents[i] = c

\* C17: within one session the order of the messages in history is fixed by
\* the order in which the requests arrived, not by the order in which their
\* AI-service calls complete: once requests "a" and "b" are both answered, the
\* replies stand in the order of the messages they answer.
C17_HistoryInArrivalOrder ==
    (inflight = {} /\ {"a", "b", "re:a", "re:b"} \subseteq Range(StoredContents)) =>
        (Position(StoredContents, "a") < Position(StoredContents, "b")
            <=> Position(StoredContents, "re:a") < Position(StoredContents, "re:b"))

\* this step answers a send-message request 200
MessageAnswered200 ==
    /\ Cardinality(inflight') < Cardinality(inflight)
    /\ lastResponse'.op = "message"
    /\ lastResponse'.status = 200

\* the request this step answers
Finishing == CHOOSE r \in inflight : r \notin inflight'

\* C18: sessions are neither locked nor versioned.  Whenever a send-message
\* request persists, the session stored under its id becomes the object this
\* request worked on, with the history of that object alone: what another
\* request on the same id stored in the meantime from a copy of its own is
\* replaced, although that request was answered 200.
C18_LastPersistedWins ==
    [][MessageAnswered200 =>
          LET id == lastResponse'.data.sessionId
              mine == heap[Finishing.addr]
              stored == heap'[chatSessions'[id]]
          IN  /\ id = mine.id
              /\ chatSessions'[id] = Finishing.addr
              /\ stored.userProfile = mine.userProfile
              /\ Len(stored.history) = Len(mine.history) + 1
              /\ SubSeq(stored.history, 1, Len(mine.history)) = mine.history
              /\ stored.history[Len(stored.history)].role = "assistant"]_vars

\* request "a" was answered 200 and its session is stored under s1, while
\* request "b" on s1 is in flight with a session object of its own that lacks
\* the messages of "a"
C18_TwoCopiesOfOneSession ==
    /\ lastResponse.op = "message"
    /\ lastResponse.status = 200
    /\ lastResponse.req.message = "a"
    /\ StoredContents = <<"a", "re:a">>
    /\ \E r \in inflight :
          /\ r.req.sessionId = "s1"
          /\ r.req.message = "b"
          /\ r.addr # chatSessions["s1"]
          /\ heap[r.addr].history = <<[role |-> "user", content |-> "b",
                                       timestamp |-> Timestamp]>>

\* this step suspends a send-message request at its AI-service call
MessageForwarded ==
    /\ Cardinality(inflight') > Cardinality(inflight)
    /\ (CHOOSE r \in inflight' : r \notin inflight).op = "message"

Starting == CHOOSE r \in inflight' : r \notin inflight

\* no other request stored or touched the session of the finishing request
\* since that request was forwarded
Undisturbed ==
    /\ FormatHistory(heap[Finishing.addr].history) = Finishing.sent.history
    /\ heap[Finishing.addr].id \in DOMAIN chatSessions =>
           chatSessions[heap[Finishing.addr].id] = Finishing.addr

\* C19: a send-message request forwards to the AI service the stored history
\* with the new user message, reduced to role and content, and the session's
\* stored profile (the request's userProfile only when it creates the
\* session).  When it succeeds with no other request on the session in
\* between, the history stored grows by exactly two entries, the user's
\* message and then the assistant's reply with its payload, and the response
\* carries the id under which the session is stored.
C19_MessageAppendsTwoEntries ==
    [][/\ MessageForwarded =>
             LET req == Starting.req
                 known == req.sessionId \in DOMAIN chatSessions
                 before == IF known THEN heap[chatSessions[req.sessionId]].history
                           ELSE <<>>
             IN  /\ Starting.sent.message = req.message
                 /\ Len(Starting.sent.history) = Len(before) + 1
                 /\ \A i \in 1..Len(before) :
                        Starting.sent.history[i] =
                            [role |-> before[i].role, content |-> before[i].content]
                 /\ Starting.sent.history[Len(before) + 1] =
                        [role |-> "user", content |-> req.message]
                 /\ Starting.sent.userProfile =
                        IF known THEN heap[chatSessions[req.sessionId]].userProfile
                        ELSE req.userProfile
       /\ (MessageAnswered200 /\ Undisturbed) =>
             LET id == lastResponse'.data.sessionId
                 sent == Finishing.sent.history
                 stored == heap'[chatSessions'[id]].history
             IN  /\ id \in DOMAIN chatSessions'
                 /\ heap'[chatSessions'[id]].id = id
                 /\ Finishing.req.sessionId # NoId => id = Finishing.req.sessionId
                 /\ Len(stored) = Len(sent) + 1
                 /\ FormatHistory(SubSeq(stored, 1, Len(sent))) = sent
                 /\ stored[Len(sent)] =
                        [role |-> "user", content |-> Finishing.req.message,
                         timestamp |-> Timestamp]
                 /\ stored[Len(stored)] =
                        [role |-> "assistant", content |-> lastResponse'.data.message,
                         data |-> lastResponse'.data.data, timestamp |-> Timestamp]
                 /\ heap'[chatSessions'[id]].userProfile = Finishing.sent.userProfile
      ]_vars

\* a message to a session created beforehand was answered: the stored history
\* holds the two entries and the profile is the one the session was created
\* with, not the one the request carried
C19_MessageAnsweredOnStoredSession ==
    /\ inflight = {}
    /\ lastResponse.op = "message"
    /\ lastResponse.status = 200
    /\ lastResponse.req.sessionId = "s1"
    /\ lastResponse.req.message = "a"
    /\ lastResponse.data.data = [topic |-> "a"]
    /\ StoredContents = <<"a", "re:a">>
    /\ heap[chatSessions["s1"]].userProfile.skills = <<"Python">>
    /\ lastResponse.req.userProfile.skills = <<"a">>

(***************************************************************************)
(* Properties of the roadmap route, checked under SpecPlan                 *)
(***************************************************************************)
\* this step answers a roadmap request
RoadmapAnswered ==
    /\ Cardinality(inflight') < Cardinality(inflight)
    /\ Finishing.op = "roadmap"

\* C20: a successful roadmap request whose sessionId is in the Map sets
\* targetRole and roadmap in that session's profile and nothing else: its
\* history, id, createdAt and other profile fields and all other sessions
\* stay as they were; with no sessionId or an unknown one it creates and
\* changes no session; a failed AI call changes no session.
C20_RoadmapTouchesOnlyTwoProfileFields ==
    [][RoadmapAnswered =>
          LET sid == Finishing.req.sessionId
              known == sid # NoId /\ sid \in DOMAIN chatSessions
          IN  /\ chatSessions' = chatSessions
              /\ DOMAIN heap' = DOMAIN heap
              /\ lastResponse'.status # 200 => heap' = heap
              /\ (lastResponse'.status = 200 /\ ~known) => heap' = heap
              /\ (lastResponse'.status = 200 /\ known) =>
                    LET addr == chatSessions[sid]
                        before == heap[addr]
                        after == heap'[addr]
                    IN  /\ \A other \in (DOMAIN heap) \ {addr} : heap'[other] = heap[other]
                        /\ after.id = before.id
                        /\ after.history = before.history
                        /\ after.createdAt = before.createdAt
                        /\ DOMAIN after.userProfile =
                               (DOMAIN before.userProfile) \cup {"targetRole", "roadmap"}
                        /\ after.userProfile.targetRole = Finishing.req.targetRole
                        /\ after.userProfile.roadmap = lastResponse'.data
                        /\ \A f \in (DOMAIN before.userProfile) \ {"targetRole", "roadmap"} :
                               after.userProfile[f] = before.userProfile[f]]_vars

\* a roadmap was recorded in the profile of a session that has a history and
\* skills
C20_RoadmapRecordedBesideHistory ==
    /\ lastResponse.op = "roadmap"
    /\ lastResponse.status = 200
    /\ lastResponse.req.sessionId = "s1"
    /\ "s1" \in DOMAIN chatSessions
    /\ Len(heap[chatSessions["s1"]].history) = 2
    /\ {"skills", "roadmap"} \subseteq DOMAIN heap[chatSessions["s1"]].userProfile
    /\ heap[chatSessions["s1"]].userProfile.skills = <<"Python">>
    /\ heap[chatSessions["s1"]].userProfile.roadmap = lastResponse.data

(***************************************************************************)
(* Properties of errorHandler, checked under SpecErrors                    *)
(***************************************************************************)
\* The rules in their order: the names and the key words each one looks for,
\* and the status it gives.
StatusRules ==
    <<[names |-> {}, words |-> {"Unexpected end of form", "Missing boundary"},
       status |-> 400],
      [names |-> {"ValidationError", "CastError"}, words |-> {}, status |-> 400],
      [names |-> {"MulterError"}, words |-> {}, status |-> 400],
      [names |-> {}, words |-> {"not found", "does not exist"}, status |-> 404],
      [names |-> {}, words |-> {"unauthorized", "not authorized"}, status |-> 401],
      [names |-> {}, words |-> {"forbidden", "access denied"}, status |-> 403],
      [names |-> {}, words |-> {"validation", "invalid"}, status |-> 400],
      [names |-> {}, words |-> {"timeout", "timed out"}, status |-> 504]>>

RuleMatches(rule, err) ==
    \/ err.name \in rule.names
    \/ \E w \in rule.words : Includes(err.message, w)

\* the status of the earliest rule the failure matches, 500 when it matches none
FirstMatchStatus(err) ==
    LET matching == {i \in DOMAIN StatusRules : RuleMatches(StatusRules[i], err)}
    IN  IF matching = {} THEN 500
        ELSE StatusRules[CHOOSE i \in matching : \A j \in matching : i <= j].status

\* C21: errorHandler answers with the status of the first rule, in the fixed
\* order, that the failure matches (500 when none does), and the body always
\* has success false.
C21_StatusOfFirstMatchingRule ==
    lastResponse.op = "errorHandler" =>
        /\ lastResponse.status = FirstMatchStatus(lastResponse.req)
        /\ lastResponse.success = FALSE

\* a failure matching a name rule and two key-word rules was answered with the
\* name rule's status
C21_NamedErrorWithKeyWords ==
    /\ lastResponse.op = "errorHandler"
    /\ lastResponse.req.name = "ValidationError"
    /\ Includes(lastResponse.req.message, "does not exist")
    /\ Includes(lastResponse.req.message, "timed out")
    /\ lastResponse.status = 400

(***************************************************************************)
(* Properties of the AI-service failures, checked under FairOutage         *)
(***************************************************************************)
\* the response answers request q
Answers(resp, q) == resp.op = q.op /\ resp.req = q.req

\* C22: when the AI-service call of an upload, analyze-text, send-message or
\* roadmap request is refused the request is answered 500 with the 'not
\* available' message, when it times out the request is answered 504, either
\* way with success false; and no suspended request waits for ever: it is
\* answered.
C22_RefusedIs500TimedOutIs504 ==
    /\ [][\A r \in inflight :
            /\ CallFails(r, Refused) =>
                  /\ lastResponse'.status = 500
                  /\ lastResponse'.success = FALSE
                  /\ Includes(lastResponse'.message, "not available")
            /\ CallFails(r, TimedOut) =>
                  /\ lastResponse'.status = 504
                  /\ lastResponse'.success = FALSE]_vars
    /\ \A q \in OutageRequests : Suspended(q) ~> (~Suspended(q) /\ Answers(lastResponse, q))

\* a send-message request whose call timed out was answered 504 while another
\* request was still suspended
C22_MessageTimedOut ==
    /\ lastResponse.op = "message"
    /\ lastResponse.status = 504
    /\ lastResponse.message = "Chat failed: timeout of 120000ms exceeded"
    /\ inflight # {}

\* the routes that call the AI service once per request
AiRoutes == {"upload", "analyze-text", "message", "roadmap"}

MessageSent == chatbot'.pending > chatbot.pending
OutcomeReceived == chatbot'.pending < chatbot.pending /\ view' = "chat"

LastMessage(c) == c.messages[Len(c.messages)]

\* C24: sendMessage does nothing for a blank text or while a send is in
\* progress; otherwise it appends the user's message and sets isLoading; at
\* most one send-message request is awaited at a time; and whatever the
\* outcome (reply, HTTP error, transport error), when it arrives isLoading is
\* false again and exactly one assistant entry has been appended.
C24_OneSendAtATime ==
    /\ [](/\ chatbot.pending <= 1
          /\ chatbot.isLoading <=> chatbot.pending = 1
          /\ \A i \in DOMAIN chatbot.messages :
                chatbot.messages[i].role = "user" => ~Blank(chatbot.messages[i].content))
    /\ [][/\ MessageSent =>
               /\ ~chatbot.isLoading
               /\ chatbot'.isLoading
               /\ chatbot'.pending = 1
               /\ Len(chatbot'.messages) = Len(chatbot.messages) + 1
               /\ SubSeq(chatbot'.messages, 1, Len(chatbot.messages)) = chatbot.messages
               /\ LastMessage(chatbot').role = "user"
          /\ OutcomeReceived =>
               /\ ~chatbot'.isLoading
               /\ chatbot'.pending = 0
               /\ Len(chatbot'.messages) = Len(chatbot.messages) + 1
               /\ SubSeq(chatbot'.messages, 1, Len(chatbot.messages)) = chatbot.messages
               /\ LastMessage(chatbot').role = "assistant"]_vars

\* a send ended in a transport error: the error entry follows the user's
\* message and the widget is idle again
C24_TransportErrorShown ==
    /\ view = "chat"
    /\ Len(chatbot.messages) >= 2
    /\ chatbot.messages[Len(chatbot.messages) - 1].role = "user"
    /\ LastMessage(chatbot).role = "assistant"
    /\ LastMessage(chatbot).content =
          "Sorry, I encountered an error: Network Error. Please try again."
    /\ ~chatbot.isLoading
    /\ chatbot.pending = 0

(***************************************************************************)
(* Properties of the SystemStatus widget, checked under SpecStatus         *)
(***************************************************************************)
\* in this step a health check ends in a failure
HealthCheckFails ==
    /\ systemStatus.isLoading
    /\ ~systemStatus'.isLoading
    /\ systemStatus'.outcome.kind = "failed"

\* C25: after any health check that fails, on mount or on a refresh, also a
\* refresh that follows a successful check, the widget has left the loading
\* state and shows the unhealthy banner, never the healthy one.
C25_FailedCheckShowsUnhealthy ==
    [][HealthCheckFails => Banner(systemStatus') = "unhealthy"]_vars

(***************************************************************************)
(* Properties of the resume analysis view, checked under SpecResume        *)
(***************************************************************************)
\* in this step an upload succeeds after an earlier successful upload
LaterUploadSucceeds ==
    /\ resumePage.isLoading
    /\ ~resumePage'.isLoading
    /\ Falsy(resumePage'.error)
    /\ ~Falsy(resumePage.earlierAts)

\* C26: when an upload succeeds after an earlier successful upload of the page
\* session, the earlier ATS result becomes the previous one and the badge
\* shows the new score minus the earlier score, along every path to the
\* second upload, the retry action included.
C26_EarlierResultBecomesPrevious ==
    [][LaterUploadSucceeds =>
          /\ resumePage'.prevAts = resumePage.earlierAts
          /\ DeltaBadge(resumePage') =
                [shown |-> TRUE,
                 delta |-> resumePage'.ats.score - resumePage.earlierAts.score]]_vars

(***************************************************************************)
(* Properties of failed messages, checked under SpecTalk                   *)
(***************************************************************************)
\* C27: when the AI-service call of a send-message request fails, the Map of
\* sessions is as it was before the request: no session was created, and the
\* history of the session the request named holds what it held before the
\* request arrived (the history forwarded less the request's own message).
C27_FailedMessageLeavesStore ==
    [][\A r \in inflight :
          MessageFinish(r, TRUE, Refused, Null) =>
             /\ chatSessions' = chatSessions
             /\ \A sid \in DOMAIN chatSessions' :
                   chatSessions'[sid] = r.addr =>
                      FormatHistory(heap'[r.addr].history) =
                         SubSeq(r.sent.history, 1, Len(r.sent.history) - 1)]_vars

(***************************************************************************)
(* Properties of deleted sessions, checked under SpecDelete                *)
(***************************************************************************)
\* C28: once DELETE /chat/session/:id has answered 200 the id stays absent
\* from the Map, and GET /chat/history/:id answers 404, until a request that
\* arrives after the delete creates it again: a send-message request
\* suspended since before the delete does not bring the session back when
\* its AI call settles.
C28_DeletedSessionStaysDeleted ==
    [][/\ \A r \in inflight :
             (/\ r.op = "message"
              /\ r \notin inflight'
              /\ r.req.sessionId \notin DOMAIN chatSessions)
             => r.req.sessionId \notin DOMAIN chatSessions'
       /\ (/\ lastResponse' # lastResponse
           /\ lastResponse'.op = "history"
           /\ lastResponse'.req.sessionId \notin DOMAIN chatSessions)
          => lastResponse'.status = 404]_vars

(***************************************************************************)
(* Properties of the session of the Chatbot widget, checked under SpecApp  *)
(***************************************************************************)
\* C29: every message sent from one mounted Chatbot carries the same session
\* id, the one the create-session call made on mount returned, also when it
\* is sent before that call has completed or after it has failed.
C29_MessagesCarryTheCreatedSession ==
    /\ \A i, j \in DOMAIN chatbot.carried : chatbot.carried[i] = chatbot.carried[j]
    /\ \A i \in DOMAIN chatbot.carried : chatbot.carried[i] # NoId
    /\ (~chatbot.creating /\ chatbot.sessionId # NoId) =>
          \A i \in DOMAIN chatbot.carried : chatbot.carried[i] = chatbot.sessionId

(***************************************************************************)
(* Properties of concurrent uploads, checked under SpecConcurrent          *)
(***************************************************************************)
LowerCased(skills) == {ToLowerCase(skills[i]) : i \in 1..Len(skills)}

\* C30: an upload that succeeds for a session, also while another upload of
\* the same session is suspended in its AI call, leaves in the session's
\* skills, case-insensitively, every skill that was there and every skill it
\* extracted, and leaves its own file as the resume record; no step removes a
\* skill from a session.  So after two concurrent uploads the skills hold
\* what either one extracted, and the resume record is the last finisher's.
C30_ConcurrentUploadsMergeSkills ==
    [][/\ \A sid \in DOMAIN storeSessions :
             /\ sid \in DOMAIN storeSessions'
             /\ LowerCased(CurrentSkills(storeSessions[sid]))
                   \subseteq LowerCased(CurrentSkills(storeSessions'[sid]))
       /\ \A r \in inflight :
             (/\ r.op = "upload"
              /\ r \notin inflight'
              /\ r.req.sessionId # NoId
              /\ lastResponse'.status = 200)
             => /\ r.req.sessionId \in DOMAIN storeSessions'
                /\ LowerCased(ExtractedSkills(lastResponse'.data.analysis))
                      \subseteq LowerCased(CurrentSkills(storeSessions'[r.req.sessionId]))
                /\ storeSessions'[r.req.sessionId].userProfile["resume"].fileName
                      = r.req.file.originalname]_vars

\* the upload of b.pdf was answered 200 while the upload of a.pdf for the same
\* session is still suspended; the session keeps a skill that b.pdf's
\* extraction did not contain, and b.pdf is its resume record
C30_FinishedBesideSuspendedUpload ==
    /\ lastResponse.op = "upload"
    /\ lastResponse.status = 200
    /\ lastResponse.req.sessionId = "s1"
    /\ lastResponse.req.file.originalname = "b.pdf"
    /\ \E r \in inflight : r.op = "upload" /\ r.req.sessionId = "s1"
    /\ "s1" \in DOMAIN storeSessions
    /\ storeSessions["s1"].userProfile["resume"].fileName = "b.pdf"
    /\ "react" \in LowerCased(CurrentSkills(storeSessions["s1"]))
    /\ "react" \notin LowerCased(ExtractedSkills(lastResponse.data.analysis))

====
